---- MODULE Spec2Model ----
(***************************************************************************)
(* content-engine: the job queue ('content-processing'), the worker that   *)
(* dispatches its jobs to processClip / publishContent, the enqueue route  *)
(* of the dashboard, and the clip pipeline.                                *)
(*                                                                         *)
(* The queue is a BullMQ queue; the repository configures it (attempts,    *)
(* backoff, concurrency) and the model follows that configuration:         *)
(* a job is waiting or delayed, is moved to active by one worker slot,     *)
(* and an attempt that throws is moved back to delayed while attempts are  *)
(* left, to failed otherwise.                                              *)
(***************************************************************************)
EXTENDS Integers, Sequences, FiniteSets, TLC

\* ---------------------------------------------------------------- bounds
MaxJobs == 2
MaxClips == 2

\* ------------------------------------------------------ program constants
MaxAttempts == 3
BackoffDelay == 2000
Concurrency == 2

None == "none"
NotStarted == [pc |-> "idle"]
NoneFinished == [completed |-> 0, failed |-> 0, removed |-> 0]
\* new Date(s).getTime() for an absent / unparseable scheduledFor
Absent == -1
NaN == -2

VARIABLES
  jobs,      \* the queue's job records, in the order they were added
  wait,      \* the ids of the waiting jobs, in the order they were pushed
  slots,     \* worker slot -> id of the job it is processing (0: free)
  receipts,  \* receipt files under samples/receipts
  written,   \* the (clip, platform) pairs whose newest receipt file carries
             \* the current value of Date.now() in its name
  http,      \* response of the request answered by the last step, if any
  clip,      \* one invocation of processClip, stage by stage
  cli,       \* the command-line pipeline (runPipeline) and its output directory
  runs,      \* worker slot -> the processClip invocation it runs, by its loops
  samples,   \* artifact path under samples/ -> the jobs that wrote it, in order
  adapter,   \* one call of generateNarration or of synthesizeVoice
  finished   \* how many finished jobs the queue holds, and how many it removed

vars == <<jobs, wait, slots, receipts, written, http, clip, cli, runs, samples, adapter, finished>>

JobIds == 1..Len(jobs)

\* (variant: a pool of three slots)
Slots_Three == 1..(Concurrency + 1)

Slots == 1..Concurrency

\* ------------------------------------------------------------ inputs
TypeInputs == {None, "process-clip", "publish-content", "process-drive-file"}
ClipInputs == {None, "c1"}
PlatformInputs == {None, "youtube", "twitter"}
\* scheduledFor, given as new Date(scheduledFor).getTime() - Date.now()
ScheduleInputs == {Absent, NaN, 0 - BackoffDelay, BackoffDelay}
PriorityInputs == {0}

Max(a, b) == IF a >= b THEN a ELSE b

ClipIndexes == 0..(Max(MaxClips, 2) - 1)

\* the files processClip writes: samples/tts/<index>_voice.wav,
\* samples/subs/<index>.srt and samples/shorts/<index>_final.mp4; the name
\* is made of the position of the clip in the list of its job, nothing else
audioPath(index) == <<"samples/tts", index>>
srtPath(index) == <<"samples/subs", index>>

\* (variant: every final video is written to the same file)
outputPath_Shared(index) == <<"samples/shorts", 0>>

outputPath(index) == <<"samples/shorts", index>>

ArtifactPaths ==
  {audioPath(k) : k \in ClipIndexes} \cup {srtPath(k) : k \in ClipIndexes}
    \cup {outputPath(k) : k \in ClipIndexes}

RECURSIVE Pow2(_)
Pow2(n) == IF n <= 0 THEN 1 ELSE 2 * Pow2(n - 1)

\* ------------------------------------------------------ JobStatus
\* The queue state of a job read as the JobStatus of packages/core/types.ts
\* (the jobs route lists waiting / active / completed / failed).
Status(job) ==
  CASE job.state \in {"waiting", "delayed"} -> "QUEUED"
    [] job.state = "active" -> "RUNNING"
    [] job.state = "completed" -> "DONE"
    [] job.state = "failed" -> "ERROR"
    [] OTHER -> "CANCELLED"

\* ------------------------------------------------------ lib/queue.ts
NewJob(type, clipId, platform, priority, delay) ==
  [ type |-> type, clipId |-> clipId, platform |-> platform,
    priority |-> priority,
    delay |-> delay,
    state |-> IF delay > 0 THEN "delayed" ELSE "waiting",
    progress |-> 0, attemptsMade |-> 0,
    failedReason |-> None, returnvalue |-> None,
    pc |-> "idle" ]

\* contentQueue.add: a job without delay is pushed to the wait list
Pushed(added) ==
  IF Len(added) > Len(jobs) /\ added[Len(added)].state = "waiting"
    THEN Append(wait, Len(added))
    ELSE wait

createProcessClipJob(clipId, priority) ==
  Append(jobs, NewJob("process-clip", clipId, None, priority, 0))

\* scheduledFor is a Date or undefined; the delay is computed first, the job
\* data (scheduledFor?.toISOString()) next: toISOString throws a RangeError on
\* an invalid Date, before contentQueue.add is called.
createPublishJobThrows(scheduledFor) == scheduledFor = NaN

\* (variant: the delay is not clamped at 0)
createPublishJob_NoClamp(clipId, platform, scheduledFor, priority) ==
  LET delay == IF scheduledFor = Absent THEN 0 ELSE scheduledFor
  IN Append(jobs, NewJob("publish-content", clipId, platform, priority, delay))

createPublishJob(clipId, platform, scheduledFor, priority) ==
  LET delay == IF scheduledFor = Absent THEN 0 ELSE scheduledFor
  IN Append(jobs, NewJob("publish-content", clipId, platform, priority,
                         Max(0, delay)))

\* ------------------------------------------- app/api/queue/jobs/route.ts
Request(type, clipId, platform, scheduledFor, priority) ==
  [ type |-> type, clipId |-> clipId, platform |-> platform,
    scheduledFor |-> scheduledFor, priority |-> priority ]

Respond(req, status, error) == [ status |-> status, error |-> error ]

\* no request is being answered
NoResponse == Respond(None, 0, None)

POST(type, clipId, platform, scheduledFor, priority) ==
  LET req == Request(type, clipId, platform, scheduledFor, priority) IN
  /\ Len(jobs) < MaxJobs
  /\ IF type = None \/ clipId = None
       THEN /\ http' = Respond(req, 400, "Type and clipId are required")
            /\ jobs' = jobs
     ELSE IF type = "process-clip"
       THEN /\ jobs' = createProcessClipJob(clipId, priority)
            /\ http' = Respond(req, 201, None)
     ELSE IF type = "publish-content"
       THEN IF platform = None
              THEN /\ http' = Respond(req, 400, "Platform is required for publish jobs")
                   /\ jobs' = jobs
            ELSE IF createPublishJobThrows(scheduledFor)
              THEN /\ http' = Respond(req, 500, "Failed to create job")
                   /\ jobs' = jobs
            ELSE /\ jobs' = createPublishJob(clipId, platform, scheduledFor, priority)
                 /\ http' = Respond(req, 201, None)
     ELSE /\ http' = Respond(req, 400, "Invalid job type")
          /\ jobs' = jobs
  /\ wait' = Pushed(jobs')
  /\ UNCHANGED <<finished, adapter, runs, samples, slots, receipts, written, clip, cli>>

Enqueue ==
  \E type \in TypeInputs, clipId \in ClipInputs, platform \in PlatformInputs,
     scheduledFor \in ScheduleInputs, priority \in PriorityInputs :
    POST(type, clipId, platform, scheduledFor, priority)

\* ------------------------------------ app/api/jobs/[jobId]/cancel/route.ts
\* the route answers { success: true } and does nothing to the queue
CancelResponse(jobId) == Respond(jobId, 200, None)

\* the Cancel button of the dashboard on a listed job
cancelJob(jobId) ==
  /\ jobId \in JobIds
  /\ http' = CancelResponse(jobId)
  /\ UNCHANGED <<finished, adapter, runs, samples, wait, jobs, slots, receipts, written, clip, cli>>

\* ------------------------------------------------------ the clock
\* BackoffDelay milliseconds pass: the remaining delay of every delayed job
\* shrinks, and Date.now() no longer has the value any receipt was named with.
Pending(j) == jobs[j].state = "delayed" /\ jobs[j].delay > 0

Elapse(job) ==
  IF job.state = "delayed"
    THEN [job EXCEPT !.delay = Max(0, @ - BackoffDelay),
                     !.state = IF job.delay <= BackoffDelay
                                 THEN "waiting" ELSE "delayed"]
    ELSE job

\* the delayed jobs whose delay ends now; they are pushed to the wait list
\* behind the jobs already waiting, the earliest due first
Promoted == {j \in JobIds : Pending(j) /\ jobs[j].delay <= BackoffDelay}

Orders(S) ==
  {o \in [1..Cardinality(S) -> S] :
     \A m, n \in 1..Cardinality(S) : m # n => o[m] # o[n]}

Tick ==
  /\ \/ \E j \in JobIds : Pending(j)
     \/ written # {}
  /\ jobs' = [j \in JobIds |-> Elapse(jobs[j])]
  /\ written' = {}
  /\ \E o \in Orders(Promoted) : wait' = wait \o o
  /\ http' = NoResponse
  /\ UNCHANGED <<finished, adapter, runs, samples, slots, receipts, clip, cli>>

\* ------------------------------------------------------ worker.ts
\* new Worker('content-processing', processJob, { concurrency: 2 })
Due(j) == jobs[j].state = "waiting"

Position(j) == CHOOSE n \in 1..Len(wait) : wait[n] = j

\* the job a free slot takes: the lowest priority value first, and the
\* earliest pushed among those
IsNext(j) ==
  /\ Due(j)
  /\ \A k \in JobIds :
       Due(k) => \/ jobs[j].priority < jobs[k].priority
                 \/ /\ jobs[j].priority = jobs[k].priority
                    /\ Position(j) <= Position(k)

Without(j) == SelectSeq(wait, LAMBDA k : k # j)

\* (variant: the job is taken although another slot is processing it)
Claimable_Stale(j) == IsNext(j) \/ jobs[j].state = "active"

\* (variant: a job that has failed for good is taken again)
Claimable_Failed(j) == IsNext(j) \/ jobs[j].state = "failed"

Claimable(j) == IsNext(j)

Claim(w, j) ==
  /\ slots[w] = 0
  /\ \A v \in Slots : v < w => slots[v] # 0
  /\ Claimable(j)
  /\ jobs' = [jobs EXCEPT ![j].state = "active",
                          ![j].delay = 0,
                          ![j].attemptsMade = @ + 1,
                          ![j].pc = "processJob"]
  /\ slots' = [slots EXCEPT ![w] = j]
  /\ wait' = Without(j)
  /\ http' = NoResponse
  /\ UNCHANGED <<finished, adapter, runs, samples, receipts, written, clip, cli>>

\* An attempt whose processor threw: retried after an exponential backoff
\* while attempts are left, failed otherwise.
\* (variant: one attempt too many)
RetryAllowed_OffByOne(job, message) == job.attemptsMade <= MaxAttempts

RetryAllowed(job, message) == job.attemptsMade < MaxAttempts

\* (variant: backoff of type 'fixed')
BackoffFor_Fixed(attemptsMade) == BackoffDelay

BackoffFor(attemptsMade) == BackoffDelay * Pow2(attemptsMade - 1)

\* (variant: a failed attempt also fails the other jobs of the same clip)
MoveToFailed_Clip(j, message) ==
  [k \in JobIds |->
     IF jobs[k].clipId = jobs[j].clipId
       THEN [jobs[k] EXCEPT !.state = "failed", !.failedReason = message,
                            !.pc = "idle"]
       ELSE jobs[k]]

MoveToFailed(j, message) ==
  IF RetryAllowed(jobs[j], message)
    THEN [jobs EXCEPT ![j].state = "delayed",
                      ![j].delay = BackoffFor(jobs[j].attemptsMade),
                      ![j].failedReason = message,
                      ![j].pc = "idle"]
    ELSE [jobs EXCEPT ![j].state = "failed",
                      ![j].failedReason = message,
                      ![j].pc = "idle"]

MoveToCompleted(j, result) ==
  [jobs EXCEPT ![j].state = "completed",
               ![j].returnvalue = result,
               ![j].pc = "idle"]

Release(w) == [slots EXCEPT ![w] = 0]

\* (variant: the cases call their processor without a look at the fields)
processJob_NoChecks(w) ==
  LET j == slots[w] IN
  /\ j # 0
  /\ jobs[j].pc = "processJob"
  /\ IF jobs[j].type = "process-clip"
       THEN /\ jobs' = [jobs EXCEPT ![j].pc = "clip_p5"]
            /\ slots' = slots
     ELSE IF jobs[j].type = "publish-content"
       THEN /\ jobs' = [jobs EXCEPT ![j].pc = "pub_p10"]
            /\ slots' = slots
     ELSE /\ jobs' = MoveToFailed(j, "Unknown job type")
          /\ slots' = Release(w)
  /\ http' = NoResponse
  /\ UNCHANGED <<finished, adapter, runs, samples, wait, receipts, written, clip, cli>>

\* (variant: the switch has no case 'publish-content')
processJob_NoPublish(w) ==
  LET j == slots[w] IN
  /\ j # 0
  /\ jobs[j].pc = "processJob"
  /\ IF jobs[j].type = "process-clip"
       THEN IF jobs[j].clipId = None
              THEN /\ jobs' = MoveToFailed(j, "clipId is required for clip processing")
                   /\ slots' = Release(w)
              ELSE /\ jobs' = [jobs EXCEPT ![j].pc = "clip_p5"]
                   /\ slots' = slots
     ELSE /\ jobs' = MoveToFailed(j, "Unknown job type")
          /\ slots' = Release(w)
  /\ http' = NoResponse
  /\ UNCHANGED <<finished, adapter, runs, samples, wait, receipts, written, clip, cli>>

\* processJob: the switch on job.data.type
processJob(w) ==
  LET j == slots[w] IN
  /\ j # 0
  /\ jobs[j].pc = "processJob"
  /\ IF jobs[j].type = "process-clip"
       THEN IF jobs[j].clipId = None
              THEN /\ jobs' = MoveToFailed(j, "clipId is required for clip processing")
                   /\ slots' = Release(w)
              ELSE /\ jobs' = [jobs EXCEPT ![j].pc = "clip_p5"]
                   /\ slots' = slots
     ELSE IF jobs[j].type = "publish-content"
       THEN IF jobs[j].clipId = None \/ jobs[j].platform = None
              THEN /\ jobs' = MoveToFailed(j, "clipId and platform are required for publishing")
                   /\ slots' = Release(w)
              ELSE /\ jobs' = [jobs EXCEPT ![j].pc = "pub_p10"]
                   /\ slots' = slots
     ELSE /\ jobs' = MoveToFailed(j, "Unknown job type")
          /\ slots' = Release(w)
  /\ http' = NoResponse
  /\ UNCHANGED <<finished, adapter, runs, samples, wait, receipts, written, clip, cli>>

\* ------------------------------------- processors: job.updateProgress(n)
ProgressAt(pc) ==
  CASE pc = "clip_p5" -> 5
    [] pc = "clip_p15" -> 15
    [] pc = "clip_p35" -> 35
    [] pc = "clip_p55" -> 55
    [] pc = "clip_p75" -> 75
    [] pc = "clip_p90" -> 90
    [] pc = "clip_p100" -> 100
    [] pc = "pub_p10" -> 10
    [] pc = "pub_p25" -> 25
    [] pc = "pub_p50" -> 50
    [] pc = "pub_p75" -> 75
    [] pc = "pub_p90" -> 90
    [] pc = "pub_p100" -> 100
    [] OTHER -> -1

\* the statement that follows each updateProgress
AfterProgress(pc) ==
  CASE pc = "clip_p5" -> "clip_ingest"
    [] pc = "clip_p35" -> "clip_p55"
    [] pc = "clip_p55" -> "clip_p75"
    [] pc = "clip_p75" -> "clip_p90"
    [] pc = "clip_p90" -> "clip_p100"
    [] pc = "clip_p100" -> "return"
    [] pc = "pub_p10" -> "pub_p25"
    [] pc = "pub_p25" -> "pub_p50"
    [] pc = "pub_p50" -> "pub_upload"
    [] pc = "pub_p75" -> "pub_p90"
    [] pc = "pub_p90" -> "pub_receipt"
    [] pc = "pub_p100" -> "return"
    [] OTHER -> "idle"

updateProgress(w) ==
  LET j == slots[w] IN
  /\ j # 0
  /\ ProgressAt(jobs[j].pc) >= 0
  /\ jobs' = [jobs EXCEPT ![j].progress = ProgressAt(jobs[j].pc),
                          ![j].pc = AfterProgress(jobs[j].pc)]
  /\ http' = NoResponse
  /\ UNCHANGED <<finished, adapter, runs, samples, wait, slots, receipts, written, clip, cli>>

\* ------------------------------------- clipProcessor.ts: ingestVideo
\* the extractor process exits with code 0 or not
ingestVideo(w, exitOk) ==
  LET j == slots[w] IN
  /\ j # 0
  /\ jobs[j].pc = "clip_ingest"
  /\ IF exitOk
       THEN /\ jobs' = [jobs EXCEPT ![j].pc = "clip_p35"]
            /\ slots' = slots
       ELSE /\ jobs' = MoveToFailed(j, "Ingest failed with code 1")
            /\ slots' = Release(w)
  /\ http' = NoResponse
  /\ UNCHANGED <<finished, adapter, runs, samples, wait, receipts, written, clip, cli>>

\* ------------------------------------- publishProcessor: uploadToPlatform
SupportedPlatforms == {"youtube", "tiktok", "meta"}

\* (variant: the switch has no default branch that throws)
uploadToPlatform_AnyPlatform(w) ==
  LET j == slots[w] IN
  /\ j # 0
  /\ jobs[j].pc = "pub_upload"
  /\ jobs' = [jobs EXCEPT ![j].pc = "pub_p75"]
  /\ slots' = slots
  /\ http' = NoResponse
  /\ UNCHANGED <<finished, adapter, runs, samples, wait, receipts, written, clip, cli>>

uploadToPlatform(w) ==
  LET j == slots[w] IN
  /\ j # 0
  /\ jobs[j].pc = "pub_upload"
  /\ IF jobs[j].platform \in SupportedPlatforms
       THEN /\ jobs' = [jobs EXCEPT ![j].pc = "pub_p75"]
            /\ slots' = slots
       ELSE /\ jobs' = MoveToFailed(j, "Unsupported platform")
            /\ slots' = Release(w)
  /\ http' = NoResponse
  /\ UNCHANGED <<finished, adapter, runs, samples, wait, receipts, written, clip, cli>>

\* ------------------------------------- publishProcessor: savePublishReceipt
\* The file is <clipId>_<platform>_<Date.now()>.json; fs.writeFile may reject.
ReceiptsOf(clipId, platform) ==
  {r \in receipts : r.clipId = clipId /\ r.platform = platform}

ReceiptWritten(clipId, platform) ==
  IF <<clipId, platform>> \in written
    THEN receipts
    ELSE receipts \cup {[clipId |-> clipId, platform |-> platform,
                         file |-> Cardinality(ReceiptsOf(clipId, platform)) + 1]}

savePublishReceipt(w, writeOk) ==
  LET j == slots[w] IN
  /\ j # 0
  /\ jobs[j].pc = "pub_receipt"
  /\ IF writeOk
       THEN /\ receipts' = ReceiptWritten(jobs[j].clipId, jobs[j].platform)
            /\ written' = written \cup {<<jobs[j].clipId, jobs[j].platform>>}
            /\ jobs' = [jobs EXCEPT ![j].pc = "pub_p100"]
            /\ slots' = slots
       ELSE /\ receipts' = receipts
            /\ written' = written
            /\ jobs' = MoveToFailed(j, "write failed")
            /\ slots' = Release(w)
  /\ http' = NoResponse
  /\ UNCHANGED <<finished, adapter, runs, samples, wait, clip, cli>>

\* ------------------------------------- processors: return { success: true, ... }
return(w) ==
  LET j == slots[w] IN
  /\ j # 0
  /\ jobs[j].pc = "return"
  /\ jobs' = MoveToCompleted(j, "success")
  /\ slots' = Release(w)
  /\ http' = NoResponse
  /\ UNCHANGED <<finished, adapter, runs, samples, wait, receipts, written, clip, cli>>

\* ------------------------------------------------------ specification
InitQueue ==
  /\ jobs = <<>>
  /\ wait = <<>>
  /\ runs = [w \in Slots |-> NotStarted]
  /\ samples = [p \in ArtifactPaths |-> <<>>]
  /\ finished = NoneFinished
  /\ slots = [w \in Slots |-> 0]
  /\ receipts = {}
  /\ written = {}
  /\ http = NoResponse

Init ==
  /\ InitQueue
  /\ adapter = NotStarted
  /\ clip = NotStarted
  /\ cli = NotStarted

Next ==
  \/ Enqueue
  \/ Tick
  \/ \E w \in Slots, j \in JobIds : Claim(w, j)
  \/ \E w \in Slots : processJob(w)
  \/ \E w \in Slots : updateProgress(w)
  \/ \E w \in Slots, exitOk \in BOOLEAN : ingestVideo(w, exitOk)
  \/ \E w \in Slots : uploadToPlatform(w)
  \/ \E w \in Slots, writeOk \in BOOLEAN : savePublishReceipt(w, writeOk)
  \/ \E w \in Slots : return(w)

Spec == Init /\ [][Next]_vars

TypeOK ==
  /\ Len(jobs) <= MaxJobs
  /\ {wait[n] : n \in 1..Len(wait)} = {j \in JobIds : jobs[j].state = "waiting"}
  /\ Len(wait) = Cardinality({j \in JobIds : jobs[j].state = "waiting"})
  /\ \A w \in Slots : slots[w] \in 0..Len(jobs)
  /\ \A j \in JobIds : jobs[j].attemptsMade \in 0..MaxAttempts

\* =====================================================================
\* processClip, stage by stage (clipProcessor.ts)
\* =====================================================================
\* clip.pc           the statement processClip is at
\* clip.call         the awaited external call in flight ("none": none)
\* clip.i            position of the running loop in its input list
\* clip.clipsInfo, narrationsInfo, audioInfo, finalVideos, uploadedFiles
\*                   the lists each stage hands to the next
\* clip.log[k]       the stages finished for the candidate clip of index k

StageOrder == <<"extract", "narrate", "voice", "subtitles", "compose", "upload">>

\* what ingest.py can answer: exit code # 0; exit code 0 with output that is
\* not JSON, the JSON value null, another JSON value without clips, JSON
\* whose clips is not an array, or JSON with n clips
IngestOutcomes ==
  {<<"exit", 1>>, <<"badjson", 0>>, <<"null", 0>>, <<"noclips", 0>>, <<"scalar", 0>>}
    \cup {<<"clips", n>> : n \in 0..MaxClips}

ClipFile(kind, k) == <<kind, k>>

\* [`${clipId}_clip1.mp4`, `${clipId}_clip2.mp4`]
Placeholders == <<ClipFile("placeholder", 1), ClipFile("placeholder", 2)>>

\* (variant: the catch resolves with no clip)
IngestedClips_NoFallback(outcome) ==
  CASE outcome[1] = "clips" -> [k \in 1..outcome[2] |-> ClipFile("clip", k)]
    [] outcome[1] = "scalar" -> <<ClipFile("scalar", 1)>>
    [] OTHER -> <<>>

\* resolve(result.clips || []) and the fallback of the catch, which catches
\* the SyntaxError of JSON.parse and the TypeError of null.clips alike
IngestedClips(outcome) ==
  CASE outcome[1] = "clips" -> [k \in 1..outcome[2] |-> ClipFile("clip", k)]
    [] outcome[1] = "badjson" -> Placeholders
    [] outcome[1] = "null" -> Placeholders
    [] outcome[1] = "scalar" -> <<ClipFile("scalar", 1)>>
    [] OTHER -> <<>>

Info(clipPath, index) == [clipPath |-> clipPath, index |-> index]

\* what the n-th generateNarration call of a run answers
NarrationOf(n) ==
  [ title |-> <<"title", n>>, narration |-> <<"narration", n>>,
    caption |-> <<"caption", n>>, hashtags |-> <<"hashtags", n>> ]

\* results.push({ clipPath: clip, narration, index: i })
Narrated(info, narration) ==
  [ clipPath |-> info.clipPath, index |-> info.index, narration |-> narration ]

\* results.push({ ...info, audioPath, srtPath })
Voiced(info) ==
  [ audioPath |-> audioPath(info.index), srtPath |-> srtPath(info.index) ]
    @@ info

Metadata(narration) ==
  [ title |-> narration.title, caption |-> narration.caption,
    hashtags |-> narration.hashtags ]

\* results.push({ ...info, finalPath: outputPath, metadata: { ... } })
FinalVideo(info) ==
  [ finalPath |-> outputPath(info.index),
    metadata |-> Metadata(info.narration) ]
    @@ info

processClipStart(isFromDrive) ==
  [ pc |-> "clip_p5", drive |-> isFromDrive, progress |-> 0, call |-> None,
    i |-> 1,
    clipsInfo |-> <<>>, narrationsInfo |-> <<>>, audioInfo |-> <<>>,
    finalVideos |-> <<>>, uploadedFiles |-> <<>>,
    log |-> [k \in ClipIndexes |-> <<>>],
    outcome |-> "running", error |-> None ]

\* (variant: Step 6 is not guarded by isFromDrive)
ClipAfterProgress_AlwaysUpload(pc, isFromDrive) ==
  CASE pc = "clip_p5" -> IF isFromDrive THEN "clip_download" ELSE "clip_ingest"
    [] pc = "clip_p15" -> "clip_ingest"
    [] pc = "clip_p35" -> "clip_narrate"
    [] pc = "clip_p55" -> "clip_audio"
    [] pc = "clip_p75" -> "clip_montage"
    [] pc = "clip_p90" -> "clip_folder"
    [] pc = "clip_p100" -> "return"
    [] OTHER -> "idle"

\* the statement after each job.updateProgress of processClip
ClipAfterProgress(pc, isFromDrive) ==
  CASE pc = "clip_p5" -> IF isFromDrive THEN "clip_download" ELSE "clip_ingest"
    [] pc = "clip_p15" -> "clip_ingest"
    [] pc = "clip_p35" -> "clip_narrate"
    [] pc = "clip_p55" -> "clip_audio"
    [] pc = "clip_p75" -> "clip_montage"
    [] pc = "clip_p90" -> IF isFromDrive THEN "clip_folder" ELSE "clip_p100"
    [] pc = "clip_p100" -> "return"
    [] OTHER -> "idle"

\* the progress update that follows each stage
AfterStage(pc) ==
  CASE pc = "clip_download" -> "clip_p15"
    [] pc = "clip_ingest" -> "clip_p35"
    [] pc = "clip_narrate" -> "clip_p55"
    [] pc = "clip_audio" -> "clip_p75"
    [] pc = "clip_montage" -> "clip_p90"
    [] pc = "clip_upload" -> "clip_p100"
    [] OTHER -> "idle"

LoopStages == {"clip_narrate", "clip_audio", "clip_montage", "clip_upload"}

IndexedClips(c) == [k \in 1..Len(c.clipsInfo) |-> Info(c.clipsInfo[k], k - 1)]

\* (variant: the montage loop runs over the narrations, not over the clips
\* that have a voice and subtitles)
StageInput_Narrations(c) ==
  CASE c.pc = "clip_narrate" -> IndexedClips(c)
    [] c.pc = "clip_audio" -> c.narrationsInfo
    [] c.pc = "clip_montage" -> c.narrationsInfo
    [] c.pc = "clip_upload" -> c.finalVideos
    [] OTHER -> <<>>

\* the list each loop runs over
StageInput(c) ==
  CASE c.pc = "clip_narrate" -> IndexedClips(c)
    [] c.pc = "clip_audio" -> c.narrationsInfo
    [] c.pc = "clip_montage" -> c.audioInfo
    [] c.pc = "clip_upload" -> c.finalVideos
    [] OTHER -> <<>>

\* the first call of one iteration of each loop
FirstCall(pc) ==
  CASE pc = "clip_narrate" -> "narrate"
    [] pc = "clip_audio" -> "voice"
    [] pc = "clip_montage" -> "compose"
    [] pc = "clip_upload" -> "upload"
    [] pc = "clip_download" -> "download"
    [] pc = "clip_ingest" -> "extract"
    [] pc = "clip_folder" -> "create-folder"
    [] OTHER -> None

Logged(c, index, stage) == [c.log EXCEPT ![index] = Append(@, stage)]

Thrown(c, message) ==
  [c EXCEPT !.pc = "done", !.call = None, !.outcome = "thrown", !.error = message]

Frame_Clip == UNCHANGED <<finished, adapter, runs, samples, wait, jobs, slots, receipts, written, http, cli>>

clipUpdateProgress ==
  /\ clip.pc \in {"clip_p5", "clip_p15", "clip_p35", "clip_p55", "clip_p75",
                  "clip_p90", "clip_p100"}
  /\ clip' = [clip EXCEPT !.progress = ProgressAt(clip.pc),
                          !.pc = ClipAfterProgress(clip.pc, clip.drive),
                          !.i = 1]
  /\ Frame_Clip

\* an awaited call is issued: the download, the extractor, the folder
\* creation, or the first call of the next iteration of a loop
clipCall ==
  /\ clip.call = None
  /\ \/ clip.pc \in {"clip_download", "clip_ingest", "clip_folder"}
     \/ clip.pc \in LoopStages /\ clip.i <= Len(StageInput(clip))
  /\ clip' = [clip EXCEPT !.call = FirstCall(clip.pc)]
  /\ Frame_Clip

\* a loop has gone through its list
clipLoopDone ==
  /\ clip.call = None
  /\ clip.pc \in LoopStages
  /\ clip.i > Len(StageInput(clip))
  /\ clip' = [clip EXCEPT !.pc = AfterStage(clip.pc)]
  /\ Frame_Clip

\* downloadFromDrive: the fetch answers ok or not
downloadFromDrive(ok) ==
  /\ clip.call = "download"
  /\ clip' = IF ok
               THEN [clip EXCEPT !.call = None, !.pc = AfterStage(clip.pc)]
               ELSE Thrown(clip, "Failed to download from Drive")
  /\ Frame_Clip

\* ingestVideo: the extractor process closes
clipIngestVideo(outcome) ==
  /\ clip.call = "extract"
  /\ clip' = IF outcome[1] = "exit"
               THEN Thrown(clip, "Ingest failed with code 1")
               ELSE [clip EXCEPT
                       !.call = None,
                       !.clipsInfo = IngestedClips(outcome),
                       !.log = [k \in ClipIndexes |->
                                  IF k < Len(IngestedClips(outcome))
                                    THEN <<"extract">> ELSE <<>>],
                       !.pc = AfterStage(clip.pc)]
  /\ Frame_Clip

\* generateNarrations: one iteration; a failure is caught and the clip dropped
generateNarrations(ok) ==
  /\ clip.call = "narrate"
  /\ LET info == StageInput(clip)[clip.i] IN
     clip' = IF ok
               THEN [clip EXCEPT !.call = None, !.i = @ + 1,
                                 !.narrationsInfo =
                                   Append(@, Narrated(info, NarrationOf(clip.i))),
                                 !.log = Logged(clip, info.index, "narrate")]
               ELSE [clip EXCEPT !.call = None, !.i = @ + 1]
  /\ Frame_Clip

\* generateAudioAndSubtitles: synthesizeVoice of one iteration
synthesizeVoice(ok) ==
  /\ clip.call = "voice"
  /\ LET info == StageInput(clip)[clip.i] IN
     clip' = IF ok
               THEN [clip EXCEPT !.call = "subtitles",
                                 !.log = Logged(clip, info.index, "voice")]
               ELSE [clip EXCEPT !.call = None, !.i = @ + 1]
  /\ Frame_Clip

\* generateAudioAndSubtitles: the subtitle file of the same iteration
writeSubtitles(ok) ==
  /\ clip.call = "subtitles"
  /\ LET info == StageInput(clip)[clip.i] IN
     clip' = IF ok
               THEN [clip EXCEPT !.call = None, !.i = @ + 1,
                                 !.audioInfo = Append(@, Voiced(info)),
                                 !.log = Logged(clip, info.index, "subtitles")]
               ELSE [clip EXCEPT !.call = None, !.i = @ + 1]
  /\ Frame_Clip

\* (variant: a failed composition is thrown out of createFinalMontage)
createFinalMontage_Throws(ok) ==
  /\ clip.call = "compose"
  /\ LET info == StageInput(clip)[clip.i] IN
     clip' = IF ok
               THEN [clip EXCEPT !.call = None, !.i = @ + 1,
                                 !.finalVideos = Append(@, FinalVideo(info)),
                                 !.log = Logged(clip, info.index, "compose")]
               ELSE Thrown(clip, "Montage failed")
  /\ Frame_Clip

\* createFinalMontage: auto_edit.py closes with code 0 or not
createFinalMontage(ok) ==
  /\ clip.call = "compose"
  /\ LET info == StageInput(clip)[clip.i] IN
     clip' = IF ok
               THEN [clip EXCEPT !.call = None, !.i = @ + 1,
                                 !.finalVideos = Append(@, FinalVideo(info)),
                                 !.log = Logged(clip, info.index, "compose")]
               ELSE [clip EXCEPT !.call = None, !.i = @ + 1]
  /\ Frame_Clip

\* (variant: the answer of the create-folder request is not looked at)
createFolder_Ignored(ok) ==
  /\ clip.call = "create-folder"
  /\ clip' = [clip EXCEPT !.call = None, !.pc = "clip_upload", !.i = 1]
  /\ Frame_Clip

\* uploadResultsToDrive: the create-folder request
createFolder(ok) ==
  /\ clip.call = "create-folder"
  /\ clip' = IF ok
               THEN [clip EXCEPT !.call = None, !.pc = "clip_upload", !.i = 1]
               ELSE Thrown(clip, "Failed to create Drive folder")
  /\ Frame_Clip

\* uploadResultsToDrive: the upload of one final video
uploadVideo(ok) ==
  /\ clip.call = "upload"
  /\ LET info == StageInput(clip)[clip.i] IN
     clip' = IF ok
               THEN [clip EXCEPT !.call = None, !.i = @ + 1,
                                 !.uploadedFiles = Append(@, info),
                                 !.log = Logged(clip, info.index, "upload")]
               ELSE [clip EXCEPT !.call = None, !.i = @ + 1]
  /\ Frame_Clip

clipReturn ==
  /\ clip.pc = "return"
  /\ clip' = [clip EXCEPT !.pc = "done", !.outcome = "returned"]
  /\ Frame_Clip

InitClip ==
  /\ InitQueue
  /\ adapter = NotStarted
  /\ cli = NotStarted
  /\ \E isFromDrive \in BOOLEAN : clip = processClipStart(isFromDrive)

NextClip ==
  \/ clipUpdateProgress
  \/ clipCall
  \/ clipLoopDone
  \/ \E ok \in BOOLEAN : downloadFromDrive(ok)
  \/ \E outcome \in IngestOutcomes : clipIngestVideo(outcome)
  \/ \E ok \in BOOLEAN : generateNarrations(ok)
  \/ \E ok \in BOOLEAN : synthesizeVoice(ok)
  \/ \E ok \in BOOLEAN : writeSubtitles(ok)
  \/ \E ok \in BOOLEAN : createFinalMontage(ok)
  \/ \E ok \in BOOLEAN : createFolder(ok)
  \/ \E ok \in BOOLEAN : uploadVideo(ok)
  \/ clipReturn

SpecClip == InitClip /\ [][NextClip]_vars

\* =====================================================================
\* runPipeline, the command-line pipeline (apps/worker/index.ts)
\* =====================================================================
\* cli.run            1: first invocation, 2: second invocation, same config
\* cli.dir            the .mp4 files in <outputDir>/clips
\* cli.clips          what getClipsList returned
\* cli.extractorCalls, cli.compositorCalls
\*                    ingest.py / auto_edit.py processes spawned by this run
\* cli.paths          the artifact files written by this run
\* cli.firstPaths     the artifact files written by the first run

ClipNames == {[baseName |-> n] : n \in 1..MaxClips}

\* fs.readdir(clipsDir).filter(.mp4).map(...): one entry per file
RECURSIVE Listing(_)
Listing(dir) ==
  IF dir = {} THEN <<>>
  ELSE LET f == CHOOSE x \in dir : \A y \in dir : x.baseName <= y.baseName
       IN <<f>> \o Listing(dir \ {f})

Artifact(folder, clipFile) == <<folder, clipFile.baseName>>

runPipelineStart(run, dir, firstPaths) ==
  [ pc |-> "ingest", run |-> run, dir |-> dir, clips |-> <<>>, i |-> 1,
    extractorCalls |-> 0, compositorCalls |-> 0,
    paths |-> {}, firstPaths |-> firstPaths, exit |-> "running" ]

\* catch (error) { process.exit(1) }
Exit1(c) == [c EXCEPT !.pc = "done", !.exit = "failed"]

Frame_Cli == UNCHANGED <<finished, adapter, runs, samples, wait, jobs, slots, receipts, written, http, clip>>

\* Step 1: runCommand("python3", ["services/vision/ingest.py", ...]);
\* the extractor leaves its clips in <outputDir>/clips
cliIngest(ok, produced) ==
  /\ cli.pc = "ingest"
  /\ cli' = IF ok
              THEN [cli EXCEPT !.extractorCalls = @ + 1,
                               !.dir = @ \cup produced,
                               !.paths = @ \cup {Artifact("clips", f) : f \in produced},
                               !.pc = "list"]
              ELSE Exit1([cli EXCEPT !.extractorCalls = @ + 1])
  /\ Frame_Cli

\* Step 2: getClipsList
getClipsList ==
  /\ cli.pc = "list"
  /\ cli' = [cli EXCEPT !.clips = Listing(cli.dir), !.i = 1, !.pc = "narrate"]
  /\ Frame_Cli

\* the first loop has gone through the clips
cliNarrationsDone ==
  /\ cli.pc = "narrate"
  /\ cli.i > Len(cli.clips)
  /\ cli' = [cli EXCEPT !.i = 1, !.pc = "compose"]
  /\ Frame_Cli

\* generateNarration and the metadata file subs/<baseName>.json
cliNarrate(ok) ==
  /\ cli.pc = "narrate"
  /\ cli.i <= Len(cli.clips)
  /\ cli' = IF ok
              THEN [cli EXCEPT !.paths = @ \cup {Artifact("subs.json", cli.clips[cli.i])},
                               !.pc = "voice"]
              ELSE Exit1(cli)
  /\ Frame_Cli

\* synthesizeVoice to tts/<baseName>.wav
cliVoice(ok) ==
  /\ cli.pc = "voice"
  /\ cli' = IF ok
              THEN [cli EXCEPT !.paths = @ \cup {Artifact("tts", cli.clips[cli.i])},
                               !.pc = "subtitles"]
              ELSE Exit1(cli)
  /\ Frame_Cli

\* generateSubtitles to subs/<baseName>.srt
cliSubtitles(ok) ==
  /\ cli.pc = "subtitles"
  /\ cli' = IF ok
              THEN [cli EXCEPT !.paths = @ \cup {Artifact("subs.srt", cli.clips[cli.i])},
                               !.i = @ + 1,
                               !.pc = "narrate"]
              ELSE Exit1(cli)
  /\ Frame_Cli

\* Step 3: runCommand("python3", ["services/montage/auto_edit.py", ...])
cliCompose(ok) ==
  /\ cli.pc = "compose"
  /\ cli.i <= Len(cli.clips)
  /\ cli' = IF ok
              THEN [cli EXCEPT !.compositorCalls = @ + 1,
                               !.paths = @ \cup {Artifact("shorts", cli.clips[cli.i])},
                               !.i = @ + 1]
              ELSE Exit1([cli EXCEPT !.compositorCalls = @ + 1])
  /\ Frame_Cli

cliCompleted ==
  /\ cli.pc = "compose"
  /\ cli.i > Len(cli.clips)
  /\ cli' = [cli EXCEPT !.pc = "done", !.exit = "ok"]
  /\ Frame_Cli

\* the same command line is run again after a successful run
cliRunAgain ==
  /\ cli.pc = "done"
  /\ cli.exit = "ok"
  /\ cli.run = 1
  /\ cli' = runPipelineStart(2, cli.dir, cli.paths)
  /\ Frame_Cli

InitCli ==
  /\ InitQueue
  /\ adapter = NotStarted
  /\ clip = NotStarted
  /\ cli = runPipelineStart(1, {}, {})

NextCli ==
  \/ \E ok \in BOOLEAN, produced \in SUBSET ClipNames : cliIngest(ok, produced)
  \/ getClipsList
  \/ cliNarrationsDone
  \/ \E ok \in BOOLEAN : cliNarrate(ok)
  \/ \E ok \in BOOLEAN : cliVoice(ok)
  \/ \E ok \in BOOLEAN : cliSubtitles(ok)
  \/ \E ok \in BOOLEAN : cliCompose(ok)
  \/ cliCompleted
  \/ cliRunAgain

SpecCli == InitCli /\ [][NextCli]_vars

\* =====================================================================
\* Properties
\* =====================================================================

StatusChanged(j) == Status(jobs[j]) # Status(jobs'[j])

Edge(j, from, to) == Status(jobs[j]) = from /\ Status(jobs'[j]) = to

ToCancelled(j) ==
  /\ Status(jobs[j]) \in {"QUEUED", "RUNNING"}
  /\ Status(jobs'[j]) = "CANCELLED"

Holders(j) == {w \in Slots : slots[w] = j}

\* C3: a job is processed by at most one worker slot at a time, a job is
\* active exactly while one slot holds it, and every change of a job's
\* status is made by the slot that takes the job or the slot that holds it.
C3_AtomicClaim ==
  /\ [](\A j \in JobIds :
          /\ Cardinality(Holders(j)) <= 1
          /\ jobs[j].state = "active" <=> Holders(j) # {})
  /\ [][\A j \in JobIds : StatusChanged(j) =>
          \E w \in Slots :
            \/ slots[w] = 0 /\ slots'[w] = j
            \/ slots[w] = j /\ slots'[w] = 0]_vars

\* both slots are busy, each with its own job
C3_Witness ==
  /\ slots[1] # 0
  /\ slots[2] # 0
  /\ slots[1] # slots[2]

Pairs == {<<jobs[j].clipId, jobs[j].platform>> : j \in JobIds}

\* C4: at most one publish receipt exists for any (clip, platform) pair.
C4_AtMostOneReceipt ==
  \A p \in Pairs : Cardinality(ReceiptsOf(p[1], p[2])) <= 1

\* C5: while a job is running, the progress stored for it never decreases.
C5_MonotonicProgress ==
  [][\A j \in JobIds :
        jobs[j].state = "active" /\ jobs'[j].state = "active"
          => jobs'[j].progress >= jobs[j].progress]_vars

\* C6: a DONE job has a result and no error, an ERROR job has an error
\* message and no result.
C6_ResultXorError ==
  \A j \in JobIds :
    /\ jobs[j].state = "completed" =>
          jobs[j].returnvalue # None /\ jobs[j].failedReason = None
    /\ jobs[j].state = "failed" =>
          jobs[j].failedReason # None /\ jobs[j].returnvalue = None

PermanentFailures ==
  { "clipId is required for clip processing",
    "clipId and platform are required for publishing",
    "Unknown job type",
    "Unsupported platform" }

\* C7: a job whose attempt failed with a permanent failure is in ERROR after
\* that single attempt.
C7_PermanentNotRetried ==
  \A j \in JobIds :
    jobs[j].failedReason \in PermanentFailures =>
      jobs[j].state = "failed" /\ jobs[j].attemptsMade = 1

ValidRequest(type, clipId, platform) ==
  /\ type \in {"process-clip", "publish-content"}
  /\ clipId # None
  /\ type = "publish-content" => platform # None

\* C8: Enqueue creates exactly one QUEUED job when the request carries a
\* kind in {process-clip, publish-content}, a clipId and (for publish) a
\* platform; otherwise it answers with an invalid-request error (400) and
\* leaves the jobs unchanged.
C8_EnqueueValidation ==
  [][\A type \in TypeInputs, clipId \in ClipInputs, platform \in PlatformInputs,
       scheduledFor \in ScheduleInputs, priority \in PriorityInputs :
        POST(type, clipId, platform, scheduledFor, priority) =>
          IF ValidRequest(type, clipId, platform)
            THEN /\ Len(jobs') = Len(jobs) + 1
                 /\ SubSeq(jobs', 1, Len(jobs)) = jobs
                 /\ Status(jobs'[Len(jobs')]) = "QUEUED"
                 /\ jobs'[Len(jobs')].type = type
                 /\ jobs'[Len(jobs')].clipId = clipId
                 /\ http'.status = 201
            ELSE /\ jobs' = jobs
                 /\ http'.status = 400]_vars

\* C9: a second run of the pipeline with the same configuration, after a
\* successful first run, spawns neither the extractor nor the compositor and
\* ends with the same artifact paths as the first run.
C9_IdempotentResume ==
  cli.pc = "done" /\ cli.run = 2 /\ cli.exit = "ok" =>
    /\ cli.extractorCalls = 0
    /\ cli.compositorCalls = 0
    /\ cli.paths = cli.firstPaths

IsPrefix(s, t) == Len(s) <= Len(t) /\ s = SubSeq(t, 1, Len(s))

PerClipCalls == {"narrate", "voice", "subtitles", "compose", "upload"}

RankIn(seq, x) == CHOOSE n \in 1..Len(seq) : seq[n] = x

ClipStatements ==
  << "clip_p5", "clip_download", "clip_p15", "clip_ingest", "clip_p35",
     "clip_narrate", "clip_p55", "clip_audio", "clip_p75", "clip_montage",
     "clip_p90", "clip_folder", "clip_upload", "clip_p100", "return", "done" >>

\* C10: within one processClip run the stages are entered in the order
\* extract, narrate, voice and subtitles, compose, upload; for every
\* candidate clip the stages it went through are an initial part of that
\* order, and a stage is in flight for a clip only when every earlier stage of
\* that clip has finished and handed the clip on.
C10_StageOrder ==
  /\ [](/\ \A k \in ClipIndexes : IsPrefix(clip.log[k], StageOrder)
        /\ clip.call \in PerClipCalls =>
             clip.log[StageInput(clip)[clip.i].index]
               = SubSeq(StageOrder, 1, RankIn(StageOrder, clip.call) - 1)
        /\ clip.call = "extract" => \A k \in ClipIndexes : clip.log[k] = <<>>)
  /\ [][clip.pc # "done" =>
          RankIn(ClipStatements, clip'.pc) >= RankIn(ClipStatements, clip.pc)]_vars

\* a run from Drive has returned: clip 0 went through all six stages, clip 1
\* was dropped when its voice could not be synthesized
C10_Witness ==
  /\ clip.outcome = "returned"
  /\ clip.log[0] = StageOrder
  /\ clip.log[1] = <<"extract", "narrate">>

\* =====================================================================
\* Stage failures of processClip
\* =====================================================================

\* the candidate clip of index k went through `before` and never through
\* `after`: the call of `after` for it was rejected and caught
Dropped(k, before, after) ==
  /\ \E n \in 1..Len(clip.log[k]) : clip.log[k][n] = before
  /\ \A n \in 1..Len(clip.log[k]) : clip.log[k][n] # after

SwallowedFailure(k) ==
  \/ Dropped(k, "voice", "subtitles")
  \/ Dropped(k, "subtitles", "compose")
  \/ clip.drive /\ Dropped(k, "compose", "upload")

\* C11: a job whose subtitle writing, composition or upload failed for some
\* clip never ends Done: when processClip has returned normally, no clip was
\* dropped by a failed stage
C11_StageFailureEndsInError ==
  (clip.pc = "done" /\ clip.outcome = "returned")
    => \A k \in ClipIndexes : ~SwallowedFailure(k)

\* =====================================================================
\* Cancellation
\* =====================================================================

\* C12: a Cancel operation on a Queued or Running job sets its status to
\* Cancelled
C12_CancelSetsCancelled ==
  [][\A j \in JobIds :
       (cancelJob(j) /\ Status(jobs[j]) \in {"QUEUED", "RUNNING"})
         => Status(jobs'[j]) = "CANCELLED"]_vars

\* =====================================================================
\* The worker started on a backlog: process-clip jobs added while no worker
\* was running (the queue lives in Redis), then drained by the pool
\* =====================================================================
MaxBacklog == 3

BacklogPriorities == {0, 1}

Backlog(priorities) ==
  [k \in 1..Len(priorities) |->
     NewJob("process-clip", "c1", None, priorities[k], 0)]

\* the backlogs of n jobs: all of the default priority 0, or one of them
\* added with priority 1
BacklogInputs(n) ==
  {priorities \in [1..n -> BacklogPriorities] :
     Cardinality({k \in 1..n : priorities[k] # 0}) <= 1}

InitPool ==
  /\ \E n \in 1..MaxBacklog : \E priorities \in BacklogInputs(n) :
       /\ jobs = Backlog(priorities)
       /\ wait = [k \in 1..n |-> k]
  /\ slots = [w \in Slots |-> 0]
  /\ runs = [w \in Slots |-> NotStarted]
  /\ samples = [p \in ArtifactPaths |-> <<>>]
  /\ finished = NoneFinished
  /\ adapter = NotStarted
  /\ receipts = {}
  /\ written = {}
  /\ http = NoResponse
  /\ clip = NotStarted
  /\ cli = NotStarted

NextPool ==
  \/ Tick
  \/ \E w \in Slots, j \in JobIds : Claim(w, j)
  \/ \E w \in Slots : processJob(w)
  \/ \E w \in Slots : updateProgress(w)
  \/ \E w \in Slots, exitOk \in BOOLEAN : ingestVideo(w, exitOk)
  \/ \E w \in Slots : return(w)

SpecPool == InitPool /\ [][NextPool]_vars

\* the dashboard open on a backlog the pool takes whole: every listed job can
\* be sent to the cancel route while the worker goes on
InitCancel == InitPool /\ Len(jobs) <= Concurrency

NextCancel ==
  \/ \E jobId \in JobIds : cancelJob(jobId)
  \/ Tick
  \/ \E w \in Slots, j \in JobIds : Claim(w, j)
  \/ \E w \in Slots : processJob(w)
  \/ \E w \in Slots : updateProgress(w)
  \/ \E w \in Slots, exitOk \in BOOLEAN : ingestVideo(w, exitOk)
  \/ \E w \in Slots : return(w)

SpecCancel == InitCancel /\ [][NextCancel]_vars

Active == {j \in JobIds : jobs[j].state = "active"}

\* C13: at every moment at most 2 jobs are Running, however many jobs are
\* Queued and due
C13_AtMostTwoRunning ==
  Cardinality({j \in JobIds : Status(jobs[j]) = "RUNNING"}) <= 2

\* both slots are busy while another job is waiting and due
C13_Witness ==
  /\ Cardinality(Active) = 2
  /\ \E j \in JobIds : Due(j)

Taken(j) == Due(j) /\ jobs'[j].state = "active"

\* C14: the job a free slot takes has the lowest priority value among the
\* due jobs, and among due jobs of that priority it is the one that was
\* enqueued first (the lowest id: jobs are numbered in the order of creation)
C14_PriorityThenFifo ==
  [][\A j \in JobIds :
       Taken(j) => \A k \in JobIds :
                     Due(k) => \/ jobs[j].priority < jobs[k].priority
                               \/ /\ jobs[j].priority = jobs[k].priority
                                  /\ j <= k]_vars

\* =====================================================================
\* Scheduled publish jobs
\* =====================================================================

Started(j) == jobs[j].state # "active" /\ jobs'[j].state = "active"

\* the job that POST has just added for a publish request scheduled at
\* scheduledFor (an offset from now): due at once when there is no time or the
\* time is not in the future, delayed by the offset otherwise
AddedAsScheduled(scheduledFor) ==
  LET job == jobs'[Len(jobs')] IN
  IF scheduledFor = Absent \/ scheduledFor <= 0
    THEN job.delay = 0 /\ job.state = "waiting"
    ELSE job.delay = scheduledFor /\ job.state = "delayed"

\* C15: a job is never moved to Running while its delay has not ended, the
\* delay of a publish job is max(0, T - now) - 0 without a scheduled time or
\* with one in the past, which makes it due at once - and no delay is negative
C15_NeverBeforeScheduledTime ==
  /\ [](\A j \in JobIds : jobs[j].delay >= 0)
  /\ [][\A j \in JobIds : Started(j) => jobs[j].delay = 0]_vars
  /\ [][Len(jobs') = Len(jobs) + 1 =>
          \A clipId \in ClipInputs, platform \in PlatformInputs,
             scheduledFor \in ScheduleInputs, priority \in PriorityInputs :
            POST("publish-content", clipId, platform, scheduledFor, priority)
              => AddedAsScheduled(scheduledFor)]_vars

\* a publish job scheduled in the future is still delayed after the worker
\* has completed a job enqueued later
C15_Witness ==
  \E j, k \in JobIds :
    /\ j < k
    /\ jobs[j].type = "publish-content"
    /\ jobs[j].attemptsMade = 0
    /\ jobs[j].state = "delayed" /\ jobs[j].delay > 0
    /\ jobs[k].state = "completed"

\* =====================================================================
\* Two slots running processClip side by side: the files under samples/
\* (failures of single clips are left to the processClip section above)
\* =====================================================================

\* runs[w].job       the job the slot processes
\* runs[w].n         the number of clips ingest.py gave for it
\* runs[w].pc, i     the loop the invocation is in, and its position
\* runs[w].consumed  the jobs whose voice and subtitle files its montage read

Writers(path) == {samples[path][k] : k \in 1..Len(samples[path])}

LastWriter(path) == samples[path][Len(samples[path])]

StartedRuns == {w \in Slots : runs[w].pc # "idle"}

Frame_Runs ==
  UNCHANGED <<finished, adapter, jobs, wait, slots, receipts, written, http, clip, cli>>

\* the worker hands a process-clip job to a free slot
runStart(w, n) ==
  /\ runs[w].pc = "idle"
  /\ runs' = [runs EXCEPT ![w] = [ pc |-> "voice", i |-> 0, n |-> n,
                                   job |-> Cardinality(StartedRuns) + 1,
                                   consumed |-> {} ]]
  /\ UNCHANGED samples
  /\ Frame_Runs

\* generateAudioAndSubtitles: synthesizeVoice({ outPath: audioPath })
runVoice(w) ==
  /\ runs[w].pc = "voice" /\ runs[w].i < runs[w].n
  /\ samples' = [samples EXCEPT ![audioPath(runs[w].i)] = Append(@, runs[w].job)]
  /\ runs' = [runs EXCEPT ![w].pc = "srt"]
  /\ Frame_Runs

\* generateAudioAndSubtitles: fs.writeFile(srtPath, srtContent)
runSubtitles(w) ==
  /\ runs[w].pc = "srt"
  /\ samples' = [samples EXCEPT ![srtPath(runs[w].i)] = Append(@, runs[w].job)]
  /\ runs' = [runs EXCEPT ![w].pc = "voice", ![w].i = @ + 1]
  /\ Frame_Runs

runAudioDone(w) ==
  /\ runs[w].pc = "voice" /\ runs[w].i >= runs[w].n
  /\ runs' = [runs EXCEPT ![w].pc = "montage", ![w].i = 0]
  /\ UNCHANGED samples
  /\ Frame_Runs

\* createFinalMontage: auto_edit.py --voice audioPath --srt srtPath
\* --out outputPath
runMontage(w) ==
  /\ runs[w].pc = "montage" /\ runs[w].i < runs[w].n
  /\ samples' = [samples EXCEPT ![outputPath(runs[w].i)] = Append(@, runs[w].job)]
  /\ runs' = [runs EXCEPT
                ![w].consumed = @ \cup {LastWriter(audioPath(runs[w].i)),
                                        LastWriter(srtPath(runs[w].i))},
                ![w].i = @ + 1]
  /\ Frame_Runs

runReturn(w) ==
  /\ runs[w].pc = "montage" /\ runs[w].i >= runs[w].n
  /\ runs' = [runs EXCEPT ![w].pc = "done"]
  /\ UNCHANGED samples
  /\ Frame_Runs

NextRuns ==
  \/ \E w \in Slots, n \in 0..MaxClips : runStart(w, n)
  \/ \E w \in Slots : runVoice(w)
  \/ \E w \in Slots : runSubtitles(w)
  \/ \E w \in Slots : runAudioDone(w)
  \/ \E w \in Slots : runMontage(w)
  \/ \E w \in Slots : runReturn(w)

SpecRuns == Init /\ [][NextRuns]_vars

Running(w) == runs[w].pc \notin {"idle", "done"}

WrittenBy(job) == {path \in ArtifactPaths : job \in Writers(path)}

\* C16: two jobs that run at the same time never write the same artifact
\* path, and a running job reads no artifact written by another job
C16_NoSharedArtifactPath ==
  \A v, w \in Slots :
    (v # w /\ Running(v) /\ Running(w))
      => /\ WrittenBy(runs[v].job) \cap WrittenBy(runs[w].job) = {}
         /\ runs[w].consumed \subseteq {runs[w].job}

\* =====================================================================
\* Publishing one clip to several platforms
\* =====================================================================

\* services/publisher: publishToAllPlatforms goes through the platforms in
\* this order; publishToPlatform returns the result of the platform's
\* publisher or throws (the request log cannot be written)
Platforms == <<"tiktok", "youtube", "instagram">>

PublishOutcomes == [1..Len(Platforms) -> BOOLEAN]

PublishResult(success, platform, error) ==
  [ success |-> success, platform |-> platform, error |-> error ]

\* the catch of the loop body
Caught(results, platform, message) ==
  Append(results, PublishResult(FALSE, platform, message))

RECURSIVE PublishFrom(_, _, _)
PublishFrom(i, results, outcomes) ==
  IF i > Len(Platforms)
    THEN results
    ELSE PublishFrom(i + 1,
                     IF outcomes[i]
                       THEN Append(results, PublishResult(TRUE, Platforms[i], None))
                       ELSE Caught(results, Platforms[i], "write failed"),
                     outcomes)

publishToAllPlatforms(outcomes) == PublishFrom(1, <<>>, outcomes)

AllPlatformsReported ==
  \A outcomes \in PublishOutcomes :
    LET results == publishToAllPlatforms(outcomes) IN
    /\ Len(results) = Len(Platforms)
    /\ \A i \in 1..Len(Platforms) :
         /\ results[i].platform = Platforms[i]
         /\ results[i].success = outcomes[i]

FailedAttempt(j) ==
  jobs[j].state = "active" /\ jobs'[j].state \in {"delayed", "failed"}

\* C17: a failure on one platform leaves the other platforms as they are:
\* the failed attempt of a publish job changes no other job and no receipt,
\* no step removes or alters a receipt, and publishToAllPlatforms reports
\* every platform with its own outcome whatever the other platforms did
C17_PlatformsIndependent ==
  /\ [][\A j \in JobIds :
          FailedAttempt(j)
            => /\ \A k \in JobIds \ {j} : jobs'[k] = jobs[k]
               /\ receipts' = receipts]_vars
  /\ [][receipts \subseteq receipts']_vars
  /\ []AllPlatformsReported

\* the same clip: the job for one platform has failed for good, the job for
\* another platform is Done and its receipt is on disk
C17_Witness ==
  \E j, k \in JobIds :
    /\ jobs[j].clipId = jobs[k].clipId
    /\ jobs[j].platform # jobs[k].platform
    /\ jobs[j].type = "publish-content" /\ jobs[j].state = "failed"
    /\ jobs[k].type = "publish-content" /\ jobs[k].state = "completed"
    /\ ReceiptsOf(jobs[k].clipId, jobs[k].platform) # {}

\* =====================================================================
\* generateNarration (packages/ai/text.ts)
\* =====================================================================

\* adapter.env       AI_PROVIDER ("none": not set)
\* adapter.key       the API key of the selected provider is set
\* adapter.fetch     the request rejects, answers a non-ok status, or answers ok
\* adapter.reply     what an ok answer holds
\* adapter.pc        the statement the call is at

MinHashtags == 6
MaxHashtags == 20

NarrationResult(title, narration, caption, hashtags) ==
  [ title |-> title, narration |-> narration, caption |-> caption,
    hashtags |-> hashtags ]

NoResult == NarrationResult(None, None, None, Absent)

\* ResultSchema: three strings and an array of 6 to 20 strings (here: its length)
ResultSchemaOk(r) ==
  /\ r.title # None /\ r.narration # None /\ r.caption # None
  /\ r.hashtags # Absent
  /\ r.hashtags >= MinHashtags /\ r.hashtags <= MaxHashtags

Stub ==
  NarrationResult("Breath with the Ocean", "Dive deep into the tranquil waters",
                  "Experience the serenity of underwater exploration.", 10)

ProviderInputs == {None, "openai", "gemini", "mock"}
FetchInputs == {"rejects", "status", "ok"}

\* an ok answer: whether choices[0].message.content can be read, whether the
\* content is JSON, and the object it parses to
ReplyInputs ==
  [ choices : BOOLEAN, json : BOOLEAN,
    content : { NarrationResult(title, "narration", "caption", hashtags) :
                  title \in {None, "Reef at dawn"},
                  hashtags \in {Absent, MinHashtags - 1, MinHashtags,
                                MaxHashtags, MaxHashtags + 1} } ]

narrationStart(env, key, fetch, reply) ==
  [ fn |-> "generateNarration", env |-> env, key |-> key, fetch |-> fetch,
    reply |-> reply, pc |-> "switch", provider |-> None,
    result |-> NoResult, outcome |-> "running" ]

Frame_Adapter ==
  UNCHANGED <<finished, jobs, wait, slots, receipts, written, http, clip, cli, runs, samples>>

\* (variant: the catch of generateNarration throws the error again)
UseStub_Rethrow(a) == [a EXCEPT !.pc = "done", !.outcome = "thrown"]

\* the catch of generateNarration: console.warn, then generateStub
UseStub(a) == [a EXCEPT !.pc = "stub"]

\* const provider = process.env.AI_PROVIDER || "openai"; switch (provider)
generateNarration ==
  /\ adapter.pc = "switch"
  /\ LET provider == IF adapter.env = None THEN "openai" ELSE adapter.env IN
     adapter' = [adapter EXCEPT
                   !.provider = provider,
                   !.pc = IF provider \in {"openai", "gemini"}
                            THEN "key" ELSE "stub"]
  /\ Frame_Adapter

\* generateWithOpenAI / generateWithGemini, statement by statement
generateWithProvider ==
  /\ adapter.pc \in {"key", "fetch", "status", "read", "parse"}
  /\ adapter' =
       CASE adapter.pc = "key" ->
              IF adapter.key THEN [adapter EXCEPT !.pc = "fetch"]
                             ELSE UseStub(adapter)
         [] adapter.pc = "fetch" ->
              IF adapter.fetch = "rejects" THEN UseStub(adapter)
                                           ELSE [adapter EXCEPT !.pc = "status"]
         [] adapter.pc = "status" ->
              IF adapter.fetch = "ok" THEN [adapter EXCEPT !.pc = "read"]
                                      ELSE UseStub(adapter)
         [] adapter.pc = "read" ->
              IF adapter.reply.choices THEN [adapter EXCEPT !.pc = "parse"]
                                       ELSE UseStub(adapter)
         [] OTHER ->
              \* JSON.parse and ResultSchema.parse in their own try: the
              \* catch returns generateStub(req)
              IF adapter.reply.json /\ ResultSchemaOk(adapter.reply.content)
                THEN [adapter EXCEPT !.pc = "done", !.outcome = "returned",
                                     !.result = adapter.reply.content]
                ELSE [adapter EXCEPT !.pc = "stub"]
  /\ Frame_Adapter

\* generateStub: return ResultSchema.parse(out)
generateStub ==
  /\ adapter.pc = "stub"
  /\ adapter' = IF ResultSchemaOk(Stub)
                  THEN [adapter EXCEPT !.pc = "done", !.outcome = "returned",
                                       !.result = Stub]
                  ELSE [adapter EXCEPT !.pc = "done", !.outcome = "thrown"]
  /\ Frame_Adapter

InitNarration ==
  /\ InitQueue
  /\ clip = NotStarted
  /\ cli = NotStarted
  /\ \E env \in ProviderInputs, key \in BOOLEAN, fetch \in FetchInputs,
        reply \in ReplyInputs :
       adapter = narrationStart(env, key, fetch, reply)

NextNarration ==
  \/ generateNarration
  \/ generateWithProvider
  \/ generateStub

SpecNarration == InitNarration /\ [][NextNarration]_vars

\* the provider delivered a reply that parses and matches the schema
ValidReply(a) ==
  /\ a.env \in {None, "openai", "gemini"}
  /\ a.key /\ a.fetch = "ok"
  /\ a.reply.choices /\ a.reply.json
  /\ ResultSchemaOk(a.reply.content)

\* C18: generateNarration never fails: whatever the provider setting and the
\* provider's outcome, it returns a result with title, narration, caption and
\* 6 to 20 hashtags, and that result is the stub titled "Breath with the
\* Ocean" whenever the provider delivered no valid reply
C18_NarrationNeverFails ==
  /\ adapter.outcome # "thrown"
  /\ adapter.pc = "done"
       => /\ adapter.outcome = "returned"
          /\ ResultSchemaOk(adapter.result)
          /\ ~ValidReply(adapter)
               => /\ adapter.result = Stub
                  /\ adapter.result.title = "Breath with the Ocean"

\* the request to the provider was rejected and the stub came back
C18_Witness ==
  /\ adapter.pc = "done"
  /\ adapter.provider = "gemini" /\ adapter.key /\ adapter.fetch = "rejects"
  /\ adapter.result = Stub

\* =====================================================================
\* synthesizeVoice (services/tts/voice_gen.ts)
\* =====================================================================

\* adapter.input     input.provider ("none": not given)
\* adapter.env       TTS_PROVIDER ("none": not set)
\* adapter.outPath   input.outPath
\* adapter.mkdirOk, writeOk, beepOk
\*                   whether fs.mkdir, the provider's fs.writeFile and the
\*                   fs.writeFile of synthesizeBeep succeed
\* adapter.files     the files written, with what they hold

Path(root, name) == [root |-> root, name |-> name]

NoPath == Path(None, None)

\* (variant: the path is used as given)
resolve_AsGiven(p) == p

\* path.resolve: a relative path is taken from the working directory
resolve(p) == IF p.root = None THEN Path("cwd", p.name) ELSE p

Absolute(p) == p.root # None

OutPathInputs == {Path(None, "test.wav"), Path("/", "test.wav")}
VoiceInputs == {None, "elevenlabs", "openai", "beep"}
VoiceEnvInputs == {None, "elevenlabs", "openai", "mock"}

voiceStart(input, env, key, fetch, outPath, mkdirOk, writeOk, beepOk) ==
  [ fn |-> "synthesizeVoice", input |-> input, env |-> env, key |-> key,
    fetch |-> fetch, outPath |-> outPath,
    mkdirOk |-> mkdirOk, writeOk |-> writeOk, beepOk |-> beepOk,
    pc |-> "resolve", provider |-> None, path |-> NoPath,
    files |-> {}, result |-> NoPath, outcome |-> "running" ]

File(path, holds) == [path |-> path, holds |-> holds]

Write(a, holds) ==
  {f \in a.files : f.path # a.path} \cup {File(a.path, holds)}

\* the catch of synthesizeVoice: console.warn, then synthesizeBeep
UseBeep(a) == [a EXCEPT !.pc = "beep"]

\* const provider = ...; const outPath = path.resolve(input.outPath);
\* await fs.mkdir(dirname(outPath), { recursive: true }); switch (provider)
voiceResolve ==
  /\ adapter.pc = "resolve"
  /\ LET provider == IF adapter.input # None THEN adapter.input
                     ELSE IF adapter.env # None THEN adapter.env
                     ELSE "beep"
     IN adapter' =
          IF adapter.mkdirOk
            THEN [adapter EXCEPT
                    !.provider = provider,
                    !.path = resolve(adapter.outPath),
                    !.pc = IF provider \in {"elevenlabs", "openai"}
                             THEN "key" ELSE "beep"]
            ELSE [adapter EXCEPT
                    !.provider = provider,
                    !.path = resolve(adapter.outPath),
                    !.pc = "done", !.outcome = "thrown"]
  /\ Frame_Adapter

\* synthesizeWithElevenLabs / synthesizeWithOpenAI, statement by statement
synthesizeWithProvider ==
  /\ adapter.pc \in {"key", "fetch", "status", "write"}
  /\ adapter' =
       CASE adapter.pc = "key" ->
              IF adapter.key THEN [adapter EXCEPT !.pc = "fetch"]
                             ELSE UseBeep(adapter)
         [] adapter.pc = "fetch" ->
              IF adapter.fetch = "rejects" THEN UseBeep(adapter)
                                           ELSE [adapter EXCEPT !.pc = "status"]
         [] adapter.pc = "status" ->
              IF adapter.fetch = "ok" THEN [adapter EXCEPT !.pc = "write"]
                                      ELSE UseBeep(adapter)
         [] OTHER ->
              IF adapter.writeOk
                THEN [adapter EXCEPT !.files = Write(adapter, "audio"),
                                     !.result = adapter.path,
                                     !.pc = "done", !.outcome = "returned"]
                ELSE UseBeep(adapter)
  /\ Frame_Adapter

\* synthesizeBeep: await fs.writeFile(outPath, buffer); return outPath
synthesizeBeep ==
  /\ adapter.pc = "beep"
  /\ adapter' =
       IF adapter.beepOk
         THEN [adapter EXCEPT !.files = Write(adapter, "beep"),
                              !.result = adapter.path,
                              !.pc = "done", !.outcome = "returned"]
         ELSE [adapter EXCEPT !.pc = "done", !.outcome = "thrown"]
  /\ Frame_Adapter

InitVoice ==
  /\ InitQueue
  /\ clip = NotStarted
  /\ cli = NotStarted
  /\ \E input \in VoiceInputs, env \in VoiceEnvInputs, key \in BOOLEAN,
        fetch \in FetchInputs, outPath \in OutPathInputs,
        mkdirOk \in BOOLEAN, writeOk \in BOOLEAN, beepOk \in BOOLEAN :
       adapter = voiceStart(input, env, key, fetch, outPath,
                            mkdirOk, writeOk, beepOk)

NextVoice ==
  \/ voiceResolve
  \/ synthesizeWithProvider
  \/ synthesizeBeep

SpecVoice == InitVoice /\ [][NextVoice]_vars

\* the selected provider has no API key, or its call fails
ProviderFailed(a) ==
  /\ a.provider \in {"elevenlabs", "openai"}
  /\ ~a.key \/ a.fetch # "ok"

\* the returned path is the absolute form of the requested one, and a file
\* is there - the beep's when the provider failed
ReturnedAudio(a) ==
  /\ a.outcome = "returned"
  /\ Absolute(a.result) /\ a.result.name = a.outPath.name
  /\ Absolute(a.outPath) => a.result = a.outPath
  /\ \E f \in a.files : f.path = a.result
  /\ ProviderFailed(a) => File(a.result, "beep") \in a.files

DiskOk(a) ==
  /\ a.mkdirOk
  /\ \/ a.beepOk
     \/ /\ a.provider \in {"elevenlabs", "openai"}
        /\ a.key /\ a.fetch = "ok" /\ a.writeOk

MaxFinished == 22

RemoveOnComplete == 50
RemoveOnFail == 20

Min(a, b) == IF a <= b THEN a ELSE b

EverFinished == finished.completed + finished.failed + finished.removed

Frame_Finished ==
  UNCHANGED <<jobs, wait, slots, receipts, written, http, clip, cli, runs,
              samples, adapter>>

\* a job is moved to completed: the set keeps its newest RemoveOnComplete jobs
keepCompleted ==
  /\ EverFinished < MaxFinished
  /\ finished' =
       [finished EXCEPT
          !.completed = Min(@ + 1, RemoveOnComplete),
          !.removed = @ + (finished.completed + 1)
                        - Min(finished.completed + 1, RemoveOnComplete)]
  /\ Frame_Finished

\* a job fails its last attempt: the set keeps its newest RemoveOnFail jobs
keepFailed ==
  /\ EverFinished < MaxFinished
  /\ finished' =
       [finished EXCEPT
          !.failed = Min(@ + 1, RemoveOnFail),
          !.removed = @ + (finished.failed + 1)
                        - Min(finished.failed + 1, RemoveOnFail)]
  /\ Frame_Finished

NextFinished ==
  \/ keepCompleted
  \/ keepFailed

SpecFinished == Init /\ [][NextFinished]_vars

\* C20: a job record is never removed: every job that has finished is still
\* held by the queue, with its status and its last error message
C20_NoRecordRemoved ==
  finished.removed = 0

\* =====================================================================
\* External calls that never answer
\* =====================================================================
\* The steps processClip takes by itself go on as long as they can. The
\* answers of its collaborators (the fetch of the download, of the folder
\* creation and of each upload, the close of ingest.py and of auto_edit.py,
\* the narration and voice providers, the write of the subtitle file) are
\* awaited without a timer: nothing makes them happen.
ProcessClipSteps ==
  \/ clipUpdateProgress
  \/ clipCall
  \/ clipLoopDone
  \/ clipReturn

SpecClipFair == SpecClip /\ WF_vars(ProcessClipSteps)

\* C21: a run of processClip (the job is Running while it lasts) always ends,
\* returned or thrown, even when a collaborator never answers
C21_EveryRunEnds ==
  (clip.outcome = "running") ~> (clip.outcome # "running")

\* =====================================================================
\* Retry delays
\* =====================================================================
\* an attempt of job j has failed and the job is enqueued again
Retried(j) == jobs[j].state = "active" /\ jobs'[j].state = "delayed"

\* the longest delay the attempt limit allows; the queue options set no cap
LongestBackoff == BackoffDelay * Pow2(MaxAttempts - 2)

MinDurationInputs == {12, 45}
MaxDurationInputs == {12, 45}
TopClipsInputs == {0, 1, 8}

PipelineConfig(minDuration, maxDuration, topClips) ==
  [ minDuration |-> minDuration, maxDuration |-> maxDuration,
    topClips |-> topClips ]

\* the CLI interface: the config is built from the arguments and handed to
\* runPipeline as it is
cliMain(config) == [config |-> config] @@ runPipelineStart(1, {}, {})

InitExtract ==
  /\ InitQueue
  /\ adapter = NotStarted
  /\ clip = NotStarted
  /\ \E minDuration \in MinDurationInputs, maxDuration \in MaxDurationInputs,
        topClips \in TopClipsInputs :
       cli = cliMain(PipelineConfig(minDuration, maxDuration, topClips))

NextExtract ==
  \/ \E ok \in BOOLEAN, produced \in SUBSET ClipNames : cliIngest(ok, produced)
  \/ getClipsList
  \/ cliNarrationsDone
  \/ \E ok \in BOOLEAN : cliNarrate(ok)
  \/ \E ok \in BOOLEAN : cliVoice(ok)
  \/ \E ok \in BOOLEAN : cliSubtitles(ok)
  \/ \E ok \in BOOLEAN : cliCompose(ok)
  \/ cliCompleted

SpecExtract == InitExtract /\ [][NextExtract]_vars

InvalidInput(config) ==
  config.minDuration >= config.maxDuration \/ config.topClips < 1

\* C23: for a request with minDur >= maxDur or topN < 1 the extractor is
\* never started, and the run does not end well
C23_InvalidInputFailsFast ==
  InvalidInput(cli.config) =>
    /\ cli.extractorCalls = 0
    /\ cli.exit # "ok"

\* =====================================================================
\* The upload stage
\* =====================================================================
UploadRequests == {"create-folder", "upload"}

\* C24: a folder-creation or upload request is in flight only for a Drive
\* source and only once the montage loop is over and progress 90 reported;
\* a run reaches the last progress report through the upload loop when its
\* source is a Drive file, and straight from progress 90 when it is local
C24_UploadIffRemote ==
  /\ [](clip.call \in UploadRequests
          => /\ clip.drive
             /\ clip.progress = 90
             /\ clip.pc \in {"clip_folder", "clip_upload"})
  /\ [][(clip.pc # "clip_p100" /\ clip'.pc = "clip_p100")
          => IF clip.drive THEN clip.pc = "clip_upload"
                           ELSE clip.pc = "clip_p90"]_vars

\* a Drive source: the upload of a composed video is in flight
C24_Witness ==
  /\ clip.drive
  /\ clip.call = "upload"
  /\ Len(clip.finalVideos) > 0
  /\ clip.progress = 90

\* =====================================================================
\* The attempts of one process-clip job (worker.ts calling processClip)
\* =====================================================================
\* The job was added by createProcessClipJob: its data holds type and clipId
\* and no driveFile, so every attempt runs processClip on a local source.
\* clip is the run of the current attempt (of the last one between attempts).

\* case 'process-clip': return await processClip(job.data.clipId, job)
processClipCall(w) ==
  LET j == slots[w] IN
  /\ j # 0
  /\ jobs[j].pc = "processJob"
  /\ jobs[j].type = "process-clip" /\ jobs[j].clipId # None
  /\ clip.pc \in {"idle", "done"}
  /\ jobs' = [jobs EXCEPT ![j].pc = "processClip"]
  /\ clip' = processClipStart(FALSE)
  /\ http' = NoResponse
  /\ UNCHANGED <<finished, adapter, runs, samples, wait, slots, receipts, written, cli>>

\* processClip has returned or thrown: the attempt is over
processClipSettled(w) ==
  LET j == slots[w] IN
  /\ j # 0
  /\ jobs[j].pc = "processClip"
  /\ clip.pc = "done"
  /\ jobs' = IF clip.outcome = "thrown"
               THEN MoveToFailed(j, clip.error)
               ELSE [MoveToCompleted(j, "success") EXCEPT ![j].progress = clip.progress]
  /\ slots' = Release(w)
  /\ http' = NoResponse
  /\ UNCHANGED <<finished, adapter, runs, samples, wait, receipts, written, clip, cli>>

\* processClip has been called at least once
Called == clip # NotStarted

InitAttempts ==
  /\ InitPool
  /\ Len(jobs) = 1

NextAttempts ==
  \/ Tick
  \/ \E w \in Slots, j \in JobIds : Claim(w, j)
  \/ \E w \in Slots : processClipCall(w)
  \/ Called /\ clipUpdateProgress
  \/ Called /\ clipCall
  \/ Called /\ clipLoopDone
  \/ Called /\ \E outcome \in IngestOutcomes : clipIngestVideo(outcome)
  \/ Called /\ \E ok \in BOOLEAN : generateNarrations(ok)
  \/ Called /\ \E ok \in BOOLEAN : synthesizeVoice(ok)
  \/ Called /\ \E ok \in BOOLEAN : writeSubtitles(ok)
  \/ Called /\ \E ok \in BOOLEAN : createFinalMontage(ok)
  \/ Called /\ clipReturn
  \/ \E w \in Slots : processClipSettled(w)

SpecAttempts == InitAttempts /\ [][NextAttempts]_vars

\* auto_edit.py has closed with a code other than 0
CompositorFailed ==
  /\ clip.pc = "clip_montage" /\ clip.call = "compose"
  /\ clip'.call = None
  /\ clip'.finalVideos = clip.finalVideos

\* C25: a failure of the compositor fails the attempt it happens in, so
\* that the queue tries the job again: the job becomes Done only from an
\* attempt in which every compositor call succeeded
C25_CompositorFailureRetried ==
  /\ [][CompositorFailed => clip'.outcome = "thrown"]_vars
  /\ [][\A j \in JobIds :
          (jobs[j].state = "active" /\ jobs'[j].state = "completed")
            => Len(clip.finalVideos) = Len(clip.audioInfo)]_vars

\* =====================================================================
\* One final video per candidate clip
\* =====================================================================
LocalStages == <<"extract", "narrate", "voice", "subtitles", "compose">>

\* the extractor answered a list of n clips
Candidates(n) == [k \in 1..n |-> ClipFile("clip", k)]

\* every candidate went through every stage up to the composition
NoStageFailed ==
  \A k \in 1..Len(clip.clipsInfo) : IsPrefix(LocalStages, clip.log[k - 1])

\* C26: when the extractor has yielded N >= 1 candidate clips and no later
\* stage has failed, the result of the run holds exactly N final videos, the
\* k-th made of the k-th candidate, written to a path no other final video
\* has, with the title, caption and hashtags of the narration generated for
\* that candidate
C26_OneFinalVideoPerCandidate ==
  (/\ clip.outcome = "returned"
   /\ Len(clip.clipsInfo) >= 1
   /\ clip.clipsInfo = Candidates(Len(clip.clipsInfo))
   /\ NoStageFailed)
    => /\ Len(clip.finalVideos) = Len(clip.clipsInfo)
       /\ \A n \in 1..Len(clip.clipsInfo) :
            LET video == clip.finalVideos[n] IN
            /\ video.clipPath = clip.clipsInfo[n]
            /\ video.metadata.title = <<"title", n>>
            /\ video.metadata.caption = <<"caption", n>>
            /\ video.metadata.hashtags = <<"hashtags", n>>
            /\ \A m \in 1..Len(clip.finalVideos) :
                 m # n => clip.finalVideos[m].finalPath # video.finalPath

\* a run has returned MaxClips final videos for MaxClips candidate clips
C26_Witness ==
  /\ clip.outcome = "returned"
  /\ clip.clipsInfo = Candidates(MaxClips)
  /\ NoStageFailed
  /\ Len(clip.finalVideos) = MaxClips

\* =====================================================================
\* Subtitles: generateSubtitles (apps/worker/index.ts, index.cjs) and
\* generateSimpleSRT (clipProcessor.ts)
\* =====================================================================
\* A text is its pieces between single spaces, text.split(' '): a word
\* ("w"), a word that ends a sentence ("w."), punctuation alone ("."),
\* or nothing (""; the empty text is the one piece ""). Times are in
\* milliseconds.
MaxTokens == 4

Tokens == {"w", "w.", ".", ""}

TextInputs == UNION {[1..n -> Tokens] : n \in 1..MaxTokens}

\* getClipsList: duration: 30
DurationInputs == {30000}

\* text.split(/[.!?]+/): the pieces of words between runs of punctuation,
\* each given as the positions of its words
RECURSIVE SplitSentences(_, _, _, _)
SplitSentences(text, k, piece, out) ==
  IF k > Len(text) THEN Append(out, piece)
  ELSE CASE text[k] = "w" -> SplitSentences(text, k + 1, Append(piece, k), out)
         [] text[k] = "w." ->
              SplitSentences(text, k + 1, <<>>, Append(out, Append(piece, k)))
         [] text[k] = "." -> SplitSentences(text, k + 1, <<>>, Append(out, piece))
         [] OTHER -> SplitSentences(text, k + 1, piece, out)

\* .filter((s) => s.trim().length > 0)
Sentences(text) ==
  SelectSeq(SplitSentences(text, 1, <<>>, <<>>), LAMBDA s : Len(s) > 0)

\* formatSrtTime: hh:mm:ss,mmm
formatSrtTime(ms) ==
  << ms \div 3600000, (ms % 3600000) \div 60000, (ms \div 1000) % 60, ms % 1000 >>

Cue(index, startTime, endTime, text) ==
  [ index |-> index, start |-> formatSrtTime(startTime),
    end |-> formatSrtTime(endTime), text |-> text ]

\* the loop of generateSubtitles; timePerSentence is duration / n and the
\* times are kept in n-ths of a millisecond, so that no division is rounded
\* before formatSrtTime floors the result
RECURSIVE SubtitleCues(_, _, _, _, _)
SubtitleCues(sentences, duration, i, startTime, srt) ==
  LET n == Len(sentences) IN
  IF i > n THEN srt
  ELSE LET endTime == Min(startTime + duration, duration * n)
       IN SubtitleCues(sentences, duration, i + 1, endTime,
                       Append(srt, Cue(i, startTime \div n, endTime \div n,
                                       sentences[i])))

generateSubtitlesSrt(text, duration) ==
  SubtitleCues(Sentences(text), duration, 1, 0, <<>>)

\* generateSimpleSRT
WordsPerSecond10 == 25
WordsPerChunk == (WordsPerSecond10 * 3 + 9) \div 10

SimpleDuration(words) == Max(30000, (Len(words) * 10000) \div WordsPerSecond10)

\* words.slice(i, i + wordsPerChunk), as the positions of the words
RECURSIVE Chunks(_, _)
Chunks(words, i) ==
  IF i > Len(words) THEN <<>>
  ELSE <<[k \in 1..Min(WordsPerChunk, Len(words) - i + 1) |-> i + k - 1]>>
         \o Chunks(words, i + WordsPerChunk)

generateSimpleSRTSrt(text) ==
  LET chunks == Chunks(text, 1) IN
  [ index \in 1..Len(chunks) |->
      Cue(index, (index - 1) * 3000,
          Min(index * 3000, SimpleDuration(text)), chunks[index]) ]

\* adapter.fn        the function that writes the subtitle track
\* adapter.duration  the duration of the clip the narration is for
subtitlesStart(fn, text, duration) ==
  [ fn |-> fn, text |-> text, duration |-> duration, pc |-> "call",
    srt |-> <<>> ]

\* runPipeline: await generateSubtitles(narration.narration, clip.duration, srtPath)
generateSubtitles ==
  /\ adapter.fn = "generateSubtitles" /\ adapter.pc = "call"
  /\ adapter' = [adapter EXCEPT
                   !.srt = generateSubtitlesSrt(adapter.text, adapter.duration),
                   !.pc = "done"]
  /\ Frame_Adapter

\* processClip: generateSimpleSRT(info.narration.narration)
generateSimpleSRT ==
  /\ adapter.fn = "generateSimpleSRT" /\ adapter.pc = "call"
  /\ adapter' = [adapter EXCEPT !.srt = generateSimpleSRTSrt(adapter.text),
                                !.pc = "done"]
  /\ Frame_Adapter

InitSubtitles ==
  /\ InitQueue
  /\ clip = NotStarted
  /\ cli = NotStarted
  /\ \E fn \in {"generateSubtitles", "generateSimpleSRT"},
        text \in TextInputs, duration \in DurationInputs :
       adapter = subtitlesStart(fn, text, duration)

NextSubtitles ==
  \/ generateSubtitles
  \/ generateSimpleSRT

SpecSubtitles == InitSubtitles /\ [][NextSubtitles]_vars

\* hh:mm:ss,mmm read back as milliseconds
SrtMillis(t) == ((t[1] * 60 + t[2]) * 60 + t[3]) * 1000 + t[4]

\* C27: for a narration of n >= 1 sentences and a clip of duration D the
\* track has n cues, cue i holding sentence i from (i-1)*D/n to i*D/n (to
\* the millisecond): the first cue starts at 0, every cue starts where the
\* one before ends and ends after it starts, the last cue ends at D
C27_EvenSentenceCues ==
  LET sentences == Sentences(adapter.text)
      n == Len(sentences)
      D == adapter.duration
      srt == adapter.srt
  IN (adapter.pc = "done" /\ n >= 1)
       => /\ Len(srt) = n
          /\ \A i \in 1..n :
               /\ srt[i].index = i
               /\ srt[i].text = sentences[i]
               /\ SrtMillis(srt[i].start) = ((i - 1) * D) \div n
               /\ SrtMillis(srt[i].end) = (i * D) \div n
               /\ SrtMillis(srt[i].start) < SrtMillis(srt[i].end)
          /\ SrtMillis(srt[1].start) = 0
          /\ SrtMillis(srt[n].end) = D

\* C28: for a narration of zero sentences the track is exactly one cue from
\* 0 to the duration of the clip
C28_ZeroSentencesOneCue ==
  LET D == adapter.duration
      srt == adapter.srt
  IN (adapter.pc = "done" /\ Len(Sentences(adapter.text)) = 0)
       => /\ Len(srt) = 1
          /\ SrtMillis(srt[1].start) = 0
          /\ SrtMillis(srt[1].end) = D

\* =====================================================================
\* The result folder on Drive (uploadResultsToDrive, lib/drive.ts)
\* =====================================================================
\* adapter.folders, adapter.files   the remote store
\* adapter.run                      the runs of the upload stage so far
\* adapter.name, adapter.date       originalDriveFile.name and the day of
\*                                  the running stage
MaxUploadRuns == 2

DriveNameInputs == {"dive.mp4", "reef.mp4"}
DateInputs == {1, 2}

\* `ContentEngine_${originalDriveFile.name}_${new Date().toISOString().split('T')[0]}`
FolderName(name, date) == <<"ContentEngine", name, date>>

NoFolder == 0

\* drive.files.create({ resource: { name, mimeType: folder } }): Drive makes
\* a new folder with a new id whatever folders of that name exist
CreatedFolder(folders, name) == [id |-> Cardinality(folders) + 1, name |-> name]

DriveStore(folders, files) ==
  [ fn |-> "uploadResultsToDrive", pc |-> "idle", run |-> 0,
    name |-> None, date |-> 0, videos |-> 0, i |-> 1, folderId |-> NoFolder,
    folders |-> folders, files |-> files, outcome |-> "idle" ]

\* Step 6 of a processClip run whose source is the Drive file `name`, with
\* `videos` final videos; the day never goes back
uploadResultsToDrive(name, date, videos) ==
  /\ adapter.pc \in {"idle", "done"}
  /\ adapter.run < MaxUploadRuns
  /\ date >= adapter.date
  /\ adapter' = [adapter EXCEPT !.pc = "create-folder", !.run = @ + 1,
                                !.name = name, !.date = date,
                                !.videos = videos, !.i = 1,
                                !.folderId = NoFolder, !.outcome = "running"]
  /\ Frame_Adapter

\* POST /api/drive { action: 'create-folder' } -> driveService.createFolder
driveCreateFolder(ok) ==
  /\ adapter.pc = "create-folder"
  /\ adapter' =
       IF ok
         THEN LET folder == CreatedFolder(adapter.folders,
                                          FolderName(adapter.name, adapter.date))
              IN [adapter EXCEPT !.folders = @ \cup {folder},
                                 !.folderId = folder.id,
                                 !.pc = "upload"]
         ELSE [adapter EXCEPT !.pc = "done", !.outcome = "thrown"]
  /\ Frame_Adapter

\* POST /api/drive { action: 'upload', parentFolderId: folderId } for the
\* next final video; a failed upload is skipped
driveUploadFile(ok) ==
  /\ adapter.pc = "upload"
  /\ adapter.i <= adapter.videos
  /\ adapter' =
       IF ok
         THEN [adapter EXCEPT
                 !.files = @ \cup {[ parent |-> adapter.folderId,
                                     name |-> outputPath(adapter.i - 1),
                                     run |-> adapter.run,
                                     folder |-> FolderName(adapter.name, adapter.date) ]},
                 !.i = @ + 1]
         ELSE [adapter EXCEPT !.i = @ + 1]
  /\ Frame_Adapter

uploadReturn ==
  /\ adapter.pc = "upload"
  /\ adapter.i > adapter.videos
  /\ adapter' = [adapter EXCEPT !.pc = "done", !.outcome = "returned"]
  /\ Frame_Adapter

InitDrive ==
  /\ InitQueue
  /\ clip = NotStarted
  /\ cli = NotStarted
  /\ adapter = DriveStore({}, {})

NextDrive ==
  \/ \E name \in DriveNameInputs, date \in DateInputs, videos \in 1..MaxClips :
       uploadResultsToDrive(name, date, videos)
  \/ \E ok \in BOOLEAN : driveCreateFolder(ok)
  \/ \E ok \in BOOLEAN : driveUploadFile(ok)
  \/ uploadReturn

SpecDrive == InitDrive /\ [][NextDrive]_vars

\* C29: whatever the number of runs of the upload stage, the remote store
\* holds at most one folder of each result folder name, and every uploaded
\* video lies in the one folder that has the name of its run
C29_OneResultFolder ==
  /\ \A f, g \in adapter.folders : f.name = g.name => f.id = g.id
  /\ \A file \in adapter.files :
       \A f \in adapter.folders : f.name = file.folder => file.parent = f.id

\* =====================================================================
\* The progress stored for a process-clip job
\* =====================================================================
\* The repository holds three processClip functions, each reporting its own
\* checkpoints with job.updateProgress: the pipeline (clipProcessor.ts:6-67),
\* the simulated variant (clipProcessor.ts:331-373) and the processor of the
\* worker of index.cjs (index.cjs:221-239). adapter.processClip is the one
\* the running worker was built with.
ProcessClipVariants == {"pipeline", "simulated", "index.cjs"}

\* the arguments of the job.updateProgress calls, in program order
UpdateProgressCalls(variant) ==
  CASE variant = "simulated" -> <<10, 25, 50, 75, 90, 100>>
    [] variant = "index.cjs" -> <<10, 50, 100>>
    [] OTHER -> <<5, 35, 55, 75, 90, 100>>

WorkerBuild(variant) == [pc |-> "idle", processClip |-> variant]

\* return await processClip(job.data.clipId, job), for the worker's build
processClipDispatch(w) ==
  LET j == slots[w] IN
  /\ j # 0
  /\ jobs[j].pc = "processJob"
  /\ jobs[j].type = "process-clip" /\ jobs[j].clipId # None
  /\ clip.pc \in {"idle", "done"}
  /\ jobs' = [jobs EXCEPT ![j].pc = "processClip"]
  /\ clip' = IF adapter.processClip = "pipeline"
               THEN processClipStart(FALSE)
               ELSE [processClipStart(FALSE) EXCEPT !.pc = "simulated"]
  /\ http' = NoResponse
  /\ UNCHANGED <<finished, adapter, runs, samples, wait, slots, receipts, written, cli>>

\* await job.updateProgress(n) of the pipeline: n is stored on the job
jobUpdateProgress(w) ==
  LET j == slots[w] IN
  /\ j # 0
  /\ jobs[j].pc = "processClip"
  /\ adapter.processClip = "pipeline"
  /\ clip.pc \in {"clip_p5", "clip_p15", "clip_p35", "clip_p55", "clip_p75",
                  "clip_p90", "clip_p100"}
  /\ jobs' = [jobs EXCEPT ![j].progress = ProgressAt(clip.pc)]
  /\ clip' = [clip EXCEPT !.progress = ProgressAt(clip.pc),
                          !.pc = ClipAfterProgress(clip.pc, clip.drive),
                          !.i = 1]
  /\ http' = NoResponse
  /\ UNCHANGED <<finished, adapter, runs, samples, wait, slots, receipts, written, cli>>

\* await job.updateProgress(n) of the simulated processors; the steps in
\* between only wait (simulateProcess, setTimeout)
simulatedUpdateProgress(w) ==
  LET j == slots[w]
      calls == UpdateProgressCalls(adapter.processClip) IN
  /\ j # 0
  /\ jobs[j].pc = "processClip"
  /\ adapter.processClip # "pipeline"
  /\ clip.pc = "simulated"
  /\ clip.i <= Len(calls)
  /\ jobs' = [jobs EXCEPT ![j].progress = calls[clip.i]]
  /\ clip' = [clip EXCEPT !.progress = calls[clip.i],
                          !.i = @ + 1,
                          !.pc = IF clip.i = Len(calls) THEN "return" ELSE @]
  /\ http' = NoResponse
  /\ UNCHANGED <<finished, adapter, runs, samples, wait, slots, receipts, written, cli>>

InitProgress ==
  /\ \E priorities \in BacklogInputs(1) :
       /\ jobs = Backlog(priorities)
       /\ wait = <<1>>
  /\ slots = [w \in Slots |-> 0]
  /\ runs = [w \in Slots |-> NotStarted]
  /\ samples = [p \in ArtifactPaths |-> <<>>]
  /\ finished = NoneFinished
  /\ \E variant \in ProcessClipVariants : adapter = WorkerBuild(variant)
  /\ receipts = {}
  /\ written = {}
  /\ http = NoResponse
  /\ clip = NotStarted
  /\ cli = NotStarted

NextProgress ==
  \/ Tick
  \/ \E w \in Slots, j \in JobIds : Claim(w, j)
  \/ \E w \in Slots : processClipDispatch(w)
  \/ \E w \in Slots : jobUpdateProgress(w)
  \/ \E w \in Slots : simulatedUpdateProgress(w)
  \/ Called /\ clipCall
  \/ Called /\ clipLoopDone
  \/ Called /\ \E outcome \in IngestOutcomes : clipIngestVideo(outcome)
  \/ Called /\ \E ok \in BOOLEAN : generateNarrations(ok)
  \/ Called /\ \E ok \in BOOLEAN : synthesizeVoice(ok)
  \/ Called /\ \E ok \in BOOLEAN : writeSubtitles(ok)
  \/ Called /\ \E ok \in BOOLEAN : createFinalMontage(ok)
  \/ Called /\ clipReturn
  \/ \E w \in Slots : processClipSettled(w)

SpecProgress == InitProgress /\ [][NextProgress]_vars

Checkpoints == {0, 5, 15, 35, 55, 75, 90, 100}

\* C30: the progress stored for a process-clip job is always one of 0, 5,
\* 15, 35, 55, 75, 90, 100; whenever the stored value changes it grows; and
\* 100 is stored only on top of 90, the checkpoint of the last local stage
C30_ProgressCheckpoints ==
  /\ [][\A j \in JobIds :
          jobs'[j].type = "process-clip" => jobs'[j].progress \in Checkpoints]_vars
  /\ [][\A j \in JobIds :
          jobs'[j].progress # jobs[j].progress
            => /\ jobs'[j].progress > jobs[j].progress
               /\ jobs'[j].progress = 100 => jobs[j].progress = 90]_vars

\* the same statement for a worker built with the pipeline alone
PipelineProgressCheckpoints ==
  [][adapter.processClip = "pipeline" =>
       \A j \in JobIds :
         /\ jobs'[j].progress \in Checkpoints
         /\ jobs'[j].progress # jobs[j].progress
              => /\ jobs'[j].progress > jobs[j].progress
                 /\ jobs'[j].progress = 100 => jobs[j].progress = 90]_vars


\* =====================================================================
\* The command-line tools ai:gen (part_001) and tts:gen (voice-gen.ts)
\* =====================================================================
\* adapter.files[p]   the content of output file p (NoFile: it does not exist)
\* adapter.synth      the calls of synthesizeVoice so far
\* adapter.force      whether the last run had --force
MaxToolRuns == 3

ToolFiles == {"meta.json", "narration.txt", "json-out", "out.wav"}

NoFile == 0

\* what generateNarration / synthesizeVoice hands back in a run: the
\* provider's answer differs from run to run
GeneratedInputs == {1, 2}

ToolsStart ==
  [ fn |-> "tools", pc |-> "idle", run |-> 0, tool |-> None, force |-> FALSE,
    synth |-> 0, files |-> [p \in ToolFiles |-> NoFile] ]

fileExists(files, p) == files[p] # NoFile

\* main of ai:gen: --force guards the meta file alone
aiGenMain(force, jsonOut, result) ==
  /\ adapter.run < MaxToolRuns
  /\ LET files == adapter.files
         meta == IF ~force /\ fileExists(files, "meta.json")
                   THEN files["meta.json"] ELSE result
     IN adapter' = [adapter EXCEPT
          !.run = @ + 1, !.tool = "ai:gen", !.force = force,
          !.files = [files EXCEPT !["meta.json"] = meta,
                                  !["narration.txt"] = result,
                                  !["json-out"] = IF jsonOut THEN result ELSE @]]
  /\ Frame_Adapter

\* main of tts:gen: returns before the synthesis when the output exists and
\* --force is absent; a failed synthesis exits with code 1
ttsGenMain(force, result, ok) ==
  /\ adapter.run < MaxToolRuns
  /\ adapter' =
       IF ~force /\ fileExists(adapter.files, "out.wav")
         THEN [adapter EXCEPT !.run = @ + 1, !.tool = "tts:gen", !.force = force]
         ELSE [adapter EXCEPT
                 !.run = @ + 1, !.tool = "tts:gen", !.force = force,
                 !.synth = @ + 1,
                 !.files = IF ok THEN [@ EXCEPT !["out.wav"] = result] ELSE @]
  /\ Frame_Adapter

InitTools ==
  /\ InitQueue
  /\ clip = NotStarted
  /\ cli = NotStarted
  /\ adapter = ToolsStart

NextTools ==
  \/ \E force \in BOOLEAN, jsonOut \in BOOLEAN, result \in GeneratedInputs :
       aiGenMain(force, jsonOut, result)
  \/ \E force \in BOOLEAN, result \in GeneratedInputs, ok \in BOOLEAN :
       ttsGenMain(force, result, ok)

SpecTools == InitTools /\ [][NextTools]_vars

\* C31: a run of either tool without --force leaves every output file
\* that existed before the run as it was, and a run of the voice tool
\* without --force over an existing output calls no synthesis
C31_OverwriteOnlyWithForce ==
  [][(adapter'.run = adapter.run + 1 /\ ~adapter'.force)
       => /\ \A p \in ToolFiles :
               fileExists(adapter.files, p) => adapter'.files[p] = adapter.files[p]
          /\ (adapter'.tool = "tts:gen" /\ fileExists(adapter.files, "out.wav"))
               => adapter'.synth = adapter.synth]_vars

\* the same statement for the voice tool alone
VoiceGenOverwriteOnlyWithForce ==
  [][(adapter'.run = adapter.run + 1 /\ ~adapter'.force /\ adapter'.tool = "tts:gen")
       => /\ \A p \in ToolFiles :
               fileExists(adapter.files, p) => adapter'.files[p] = adapter.files[p]
          /\ fileExists(adapter.files, "out.wav") => adapter'.synth = adapter.synth]_vars


\* =====================================================================
\* Per-clip failures of processClip
\* =====================================================================
PerClipStages == {"clip_narrate", "clip_audio", "clip_montage"}

\* the call in flight for one clip was rejected and caught: the clip is
\* appended to no list
PerClipFailure ==
  /\ clip.call \in {"narrate", "voice", "subtitles", "compose"}
  /\ clip'.call = None
  /\ clip'.narrationsInfo = clip.narrationsInfo
  /\ clip'.audioInfo = clip.audioInfo
  /\ clip'.finalVideos = clip.finalVideos

VideoIndexes == {clip.finalVideos[n].index : n \in 1..Len(clip.finalVideos)}

\* C32: a failed narration, voice, subtitle or composition call drops the
\* clip it was made for and nothing else: the run goes on with the next clip
\* of the same loop, a loop ends only when every clip handed to it was tried,
\* and the final videos of a returned run are exactly the clips that went
\* through narration, voice, subtitles and composition, at most one per
\* extracted clip
C32_FailureDropsOneClip ==
  /\ [][PerClipFailure =>
          /\ clip'.outcome = "running"
          /\ clip'.pc = clip.pc
          /\ clip'.i = clip.i + 1]_vars
  /\ [][(clip.pc \in PerClipStages /\ clip'.pc # clip.pc)
          => clip.i > Len(StageInput(clip))]_vars
  /\ [](clip.outcome = "returned" =>
          /\ VideoIndexes = {k \in ClipIndexes : IsPrefix(LocalStages, clip.log[k])}
          /\ Cardinality(VideoIndexes) = Len(clip.finalVideos)
          /\ Len(clip.finalVideos) <= Len(clip.clipsInfo))

\* a run has returned: the voice of clip 0 failed, clip 1 is the one final video
C32_Witness ==
  /\ clip.outcome = "returned"
  /\ clip.log[0] = <<"extract", "narrate">>
  /\ IsPrefix(LocalStages, clip.log[1])
  /\ VideoIndexes = {1}


\* =====================================================================
\* Receipts of publishContent
\* =====================================================================
PublishJobs == {j \in JobIds : jobs[j].type = "publish-content"}

\* C33: a receipt is written only by a running publish job whose upload to
\* a supported platform has returned (progress 75 and 90 were reported
\* after it) and whose progress 100 is not reported yet; an upload to any
\* other platform fails the attempt with "Unsupported platform" and writes
\* nothing, so no receipt names such a platform; and a publish job reports
\* progress 100 only with its receipt on disk
C33_ReceiptAfterUpload ==
  /\ [][receipts' # receipts =>
          \E w \in Slots :
            /\ slots[w] # 0
            /\ jobs[slots[w]].pc = "pub_receipt"
            /\ jobs[slots[w]].platform \in SupportedPlatforms
            /\ jobs[slots[w]].progress = 90
            /\ jobs'[slots[w]].progress = 90
            /\ receipts' \ receipts \subseteq
                 ReceiptsOf(jobs[slots[w]].clipId, jobs[slots[w]].platform)']_vars
  /\ [][\A j \in PublishJobs :
          (jobs[j].pc = "pub_upload" /\ jobs'[j].pc # "pub_upload")
            => IF jobs[j].platform \in SupportedPlatforms
                 THEN jobs'[j].pc = "pub_p75"
                 ELSE /\ jobs'[j].failedReason = "Unsupported platform"
                      /\ jobs'[j].state # "active"
                      /\ receipts' = receipts]_vars
  /\ [](/\ \A r \in receipts : r.platform \in SupportedPlatforms
        /\ \A j \in PublishJobs :
             jobs[j].progress = 100
               => ReceiptsOf(jobs[j].clipId, jobs[j].platform) # {})

\* one publish job has reported 100 with its receipt written, another has
\* failed on an unsupported platform
C33_Witness ==
  /\ \E j \in PublishJobs :
       /\ jobs[j].progress = 100
       /\ ReceiptsOf(jobs[j].clipId, jobs[j].platform) # {}
  /\ \E j \in PublishJobs :
       /\ jobs[j].failedReason = "Unsupported platform"
       /\ ReceiptsOf(jobs[j].clipId, jobs[j].platform) = {}


\* =====================================================================
\* Job kinds: the enqueue route against the worker's dispatch
\* =====================================================================
AcceptedKinds == {"process-clip", "publish-content"}

MaxDispatched == 2

\* job.data: type, clipId, platform
JobDataInputs ==
  { <<"process-clip", "c1", None>>,
    <<"publish-content", "c1", "youtube">>,
    <<"process-clip", None, None>>,
    <<"publish-content", None, "youtube">>,
    <<"publish-content", "c1", None>>,
    <<"process-drive-file", "c1", "youtube">> }

Dispatched(data) ==
  [k \in 1..Len(data) |-> NewJob(data[k][1], data[k][2], data[k][3], 0, 0)]

InitDispatch ==
  /\ \E n \in 1..MaxDispatched : \E data \in [1..n -> JobDataInputs] :
       /\ jobs = Dispatched(data)
       /\ wait = [k \in 1..n |-> k]
  /\ slots = [w \in Slots |-> 0]
  /\ runs = [w \in Slots |-> NotStarted]
  /\ samples = [p \in ArtifactPaths |-> <<>>]
  /\ finished = NoneFinished
  /\ adapter = NotStarted
  /\ receipts = {}
  /\ written = {}
  /\ http = NoResponse
  /\ clip = NotStarted
  /\ cli = NotStarted

NextDispatch ==
  \/ Tick
  \/ \E w \in Slots, j \in JobIds : Claim(w, j)
  \/ \E w \in Slots : processJob(w)
  \/ \E w \in Slots : updateProgress(w)
  \/ \E w \in Slots, exitOk \in BOOLEAN : ingestVideo(w, exitOk)
  \/ \E w \in Slots : uploadToPlatform(w)
  \/ \E w \in Slots, writeOk \in BOOLEAN : savePublishReceipt(w, writeOk)
  \/ \E w \in Slots : return(w)

SpecDispatch == InitDispatch /\ [][NextDispatch]_vars

\* the message processJob throws for a job it calls no processor for
RequiredFieldError(job) ==
  IF job.type = "process-clip"
    THEN "clipId is required for clip processing"
  ELSE IF job.type = "publish-content"
    THEN "clipId and platform are required for publishing"
  ELSE "Unknown job type"

LacksRequiredField(job) ==
  \/ job.type \notin {"process-clip", "publish-content"}
  \/ job.clipId = None
  \/ job.type = "publish-content" /\ job.platform = None

\* C35: a job of unknown kind, a process-clip job without clipId and a
\* publish-content job without clipId or platform never get to a statement
\* of processClip or publishContent: their progress stays 0, they have no
\* result, and the step of processJob that takes them up fails the attempt
\* with the message of the missing field and writes no artifact and no receipt
C35_FieldsCheckedBeforeProcessor ==
  /\ [](\A j \in JobIds :
          LacksRequiredField(jobs[j])
            => /\ jobs[j].pc \in {"idle", "processJob"}
               /\ jobs[j].progress = 0
               /\ jobs[j].returnvalue = None)
  /\ [][\A j \in JobIds :
          (LacksRequiredField(jobs[j])
             /\ jobs[j].pc = "processJob" /\ jobs'[j].pc # "processJob")
            => /\ jobs'[j].failedReason = RequiredFieldError(jobs[j])
               /\ jobs'[j].state \in {"delayed", "failed"}
               /\ receipts' = receipts
               /\ written' = written
               /\ samples' = samples]_vars

\* one job of each of two faulty shapes has failed for good, with nothing
\* written
C35_Witness ==
  /\ \E j \in JobIds :
       /\ jobs[j].state = "failed"
       /\ jobs[j].failedReason = "clipId is required for clip processing"
  /\ \E j \in JobIds :
       /\ jobs[j].state = "failed"
       /\ jobs[j].failedReason = "clipId and platform are required for publishing"
  /\ receipts = {}


\* =====================================================================
\* What ingestVideo hands to the pipeline
\* =====================================================================
NoLaterStage(c) ==
  /\ c.narrationsInfo = <<>>
  /\ c.audioInfo = <<>>
  /\ c.finalVideos = <<>>
  /\ c.uploadedFiles = <<>>
  /\ \A k \in ClipIndexes : c.log[k] = <<>>

IngestFailed == clip.outcome = "thrown" /\ clip.error = "Ingest failed with code 1"

\* C36 (as stated): an exit code other than 0 fails the attempt before any
\* later stage; output that is not JSON gives the two placeholder clips;
\* valid JSON without a clips field - null included - gives zero clips
C36_StatedIngestOutcomes ==
  [][\A outcome \in IngestOutcomes :
       clipIngestVideo(outcome) =>
         CASE outcome[1] = "exit" -> clip'.outcome = "thrown" /\ NoLaterStage(clip')
           [] outcome[1] = "badjson" ->
                clip'.outcome = "running" /\ clip'.clipsInfo = Placeholders
           [] outcome[1] \in {"noclips", "null"} ->
                clip'.outcome = "running" /\ clip'.clipsInfo = <<>>
           [] OTHER -> TRUE]_vars

\* C36 (amended): an exit code other than 0 fails the attempt, and no later
\* stage ever starts in it; output that is not JSON, and the JSON value null,
\* give the two placeholder clips; any other valid JSON value without a clips
\* field gives zero clips
C36_IngestOutcomes ==
  /\ [][\A outcome \in IngestOutcomes :
          clipIngestVideo(outcome) =>
            CASE outcome[1] = "exit" -> clip'.outcome = "thrown" /\ NoLaterStage(clip')
              [] outcome[1] \in {"badjson", "null"} ->
                   clip'.outcome = "running" /\ clip'.clipsInfo = Placeholders
              [] outcome[1] = "noclips" ->
                   clip'.outcome = "running" /\ clip'.clipsInfo = <<>>
              [] OTHER -> TRUE]_vars
  /\ [][IngestFailed => clip' = clip]_vars
  /\ [](IngestFailed => NoLaterStage(clip))

\* a run that went on with the two placeholder clips has returned a final
\* video for each
C36_Witness ==
  /\ clip.outcome = "returned"
  /\ clip.clipsInfo = Placeholders
  /\ Len(clip.finalVideos) = 2


\* =====================================================================
\* Failures of uploadResultsToDrive
\* =====================================================================
FolderFailed == clip.outcome = "thrown" /\ clip.error = "Failed to create Drive folder"

NeverUploaded(c) ==
  /\ c.uploadedFiles = <<>>
  /\ \A k \in ClipIndexes : \A n \in 1..Len(c.log[k]) : c.log[k][n] # "upload"

\* C37: a create-folder request that is not answered ok throws out of
\* processClip with no upload issued before or after it; an upload that is
\* not answered ok is skipped and the loop goes on with the next video, and
\* ends only past the last one; the uploadedFiles of the run are the final
\* videos whose upload was answered ok, in their order
C37_FolderFailsUploadsDoNot ==
  /\ [][\A ok \in BOOLEAN :
          createFolder(ok) =>
            IF ok
              THEN clip'.outcome = "running" /\ clip'.pc = "clip_upload"
              ELSE /\ clip'.outcome = "thrown"
                   /\ clip'.error = "Failed to create Drive folder"
                   /\ NeverUploaded(clip')]_vars
  /\ [][FolderFailed => clip' = clip]_vars
  /\ [][\A ok \in BOOLEAN :
          uploadVideo(ok) =>
            /\ clip'.outcome = "running"
            /\ clip'.pc = clip.pc
            /\ clip'.i = clip.i + 1
            /\ clip'.uploadedFiles =
                 IF ok THEN Append(clip.uploadedFiles, clip.finalVideos[clip.i])
                       ELSE clip.uploadedFiles]_vars
  /\ [][(clip.pc = "clip_upload" /\ clip'.pc # clip.pc)
          => clip.i > Len(clip.finalVideos)]_vars
  /\ [](clip.call = "upload" => clip.pc = "clip_upload" /\ clip.outcome = "running")

\* a run from Drive has returned two final videos: the upload of the first
\* failed, the second was uploaded
C37_Witness ==
  /\ clip.outcome = "returned"
  /\ Len(clip.finalVideos) = 2
  /\ Len(clip.uploadedFiles) = 1
  /\ clip.uploadedFiles[1] = clip.finalVideos[2]


\* =====================================================================
\* The platform publishers (publishers/youtube.ts, tiktok.ts, meta.ts)
\* =====================================================================
\* adapter.env        process.env.DRY_RUN ("none": not set)
\* adapter.files      the receipt files on disk: directory and file name
\* adapter.calls      the calls of publish so far
\* adapter.result     what the last call that returned has returned
\* adapter.outcome    how the last call ended: "returned" or "thrown"
MaxPublishCalls == 3

Publishers == {"youtube", "tiktok", "meta"}

DryRunInputs == {None, "true", "false", "TRUE", "1"}

\* `yt-${Date.now()}-${Math.random()...}`: the platform's prefix and a value
\* no earlier call had
ExternalId(platform, calls) == <<platform, calls + 1>>

\* path.join(process.cwd(), '.out', 'publish', platform)
ReceiptDir(platform) == <<".out/publish", platform>>

\* (variant: any value of DRY_RUN but 'false' counts as a dry run)
IsDryRun_Truthy(env) == env \notin {None, "false"}

\* process.env.DRY_RUN === 'true'
IsDryRun(env) == env = "true"

NoPublishResult ==
  [ externalId |-> <<None, 0>>, platform |-> None, isDryRun |-> FALSE ]

PublishersStart(env) ==
  [ fn |-> "publish", pc |-> "idle", env |-> env, calls |-> 0,
    files |-> {}, result |-> NoPublishResult, outcome |-> "idle" ]

\* publish(options) of one platform; writeReceiptFile may reject
publish(platform, writeOk) ==
  /\ adapter.calls < MaxPublishCalls
  /\ LET externalId == ExternalId(platform, adapter.calls)
         result == [ externalId |-> externalId, platform |-> platform,
                     isDryRun |-> IsDryRun(adapter.env) ]
     IN adapter' =
          IF IsDryRun(adapter.env)
            THEN [adapter EXCEPT !.calls = @ + 1, !.result = result,
                                 !.outcome = "returned"]
          ELSE IF writeOk
            THEN [adapter EXCEPT !.calls = @ + 1, !.result = result,
                                 !.outcome = "returned",
                                 !.files = @ \cup {[ dir |-> ReceiptDir(platform),
                                                     name |-> externalId ]}]
          ELSE [adapter EXCEPT !.calls = @ + 1, !.outcome = "thrown"]
  /\ Frame_Adapter

InitPublishers ==
  /\ InitQueue
  /\ clip = NotStarted
  /\ cli = NotStarted
  /\ \E env \in DryRunInputs : adapter = PublishersStart(env)

NextPublishers ==
  \E platform \in Publishers, writeOk \in BOOLEAN : publish(platform, writeOk)

SpecPublishers == InitPublishers /\ [][NextPublishers]_vars

\* C38: with DRY_RUN = 'true' a call of a publisher leaves the receipt
\* files as they are and returns isDryRun = true; with any other value, or
\* none, a call that returns has added exactly one file, named by the
\* external id it returns, in the directory of its platform, and returns
\* isDryRun = false
C38_DryRunWritesNothing ==
  [][\A platform \in Publishers, writeOk \in BOOLEAN :
       publish(platform, writeOk) =>
         IF adapter.env = "true"
           THEN /\ adapter'.files = adapter.files
                /\ adapter'.outcome = "returned"
                /\ adapter'.result.isDryRun
           ELSE adapter'.outcome = "returned" =>
                  /\ ~adapter'.result.isDryRun
                  /\ adapter'.files \ adapter.files =
                       {[ dir |-> ReceiptDir(platform),
                          name |-> adapter'.result.externalId ]}
                  /\ adapter.files \subseteq adapter'.files]_vars

\* DRY_RUN is 'TRUE', not 'true': two calls have written their two receipts
C38_Witness ==
  /\ adapter.env = "TRUE"
  /\ adapter.calls = 2
  /\ Cardinality(adapter.files) = 2
  /\ adapter.outcome = "returned"
  /\ ~adapter.result.isDryRun

====
